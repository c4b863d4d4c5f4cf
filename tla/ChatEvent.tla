----------------------------- MODULE ChatEvent ------------------------------
(***************************************************************************)
(* Chat events of chat-identity on their way from an author to a reader:   *)
(* sign_event_with_key(), with or without a mined nonce, the relay that    *)
(* carries the wire object and may alter any of it, and verify_event_json. *)
(*                                                                         *)
(* Text is a sequence of characters, a character its code point, because   *)
(* what is at stake is whether two events can have one canonical form.     *)
(* SHA-256 and BIP-340 are what the code relies on: an id stands for the   *)
(* bytes it was computed from, and only the owner of a key signs with it.  *)
(* The JSON of the wire is taken as read by the parser: a record.          *)
(***************************************************************************)
EXTENDS Naturals, FiniteSets, SequencesExt

CONSTANTS
  Authors,       \* public keys, each a lower-case hex digit
  U32,           \* the number of values of a u32 (2^32)
  Kinds,         \* numbers that may stand in "kind": a JSON number is a u64
  Times, Contents, TagLists,   \* what the other fields may be
  Nonces,        \* the nonces at which the proof of work may succeed
  MaxSigned,     \* bound: events signed
  MaxAlterations \* bound: changes a relay makes

ASSUME ChatAssumption ==
  /\ Authors \subseteq 97..102
  /\ U32 \in Nat \ {0}
  /\ Kinds \subseteq Nat /\ Times \subseteq Nat /\ Nonces \subseteq Nat
  /\ Contents \subseteq Seq(Nat) /\ TagLists \subseteq Seq(Seq(Seq(Nat)))
  /\ MaxSigned \in Nat /\ MaxAlterations \in Nat

VARIABLES
  signed,        \* history: the events returned to their authors
  wire,          \* the events in transit, at most one
  alterations,   \* changes made by relays
  verdict        \* "none", or verify_event_json's "yes", "no" or "err"

vars == <<signed, wire, alterations, verdict>>

-----------------------------------------------------------------------------
(* Canonical form.                                                         *)

LF == 10
QUOTE == 34
COMMA == 44
ZERO == 48
OPEN == 91
BSLASH == 92
CLOSE == 93
NONCE == <<110>>   \* the word "nonce"

(* The seven characters NIP-01 escapes, and the letter after the backslash.*)
EscapeLetter ==
  [c \in {LF, QUOTE, BSLASH, 13, 9, 8, 12} |->
     CASE c = LF -> 110 [] c = 13 -> 114 [] c = 9 -> 116
       [] c = 8 -> 98 [] c = 12 -> 102 [] OTHER -> c]

EscapeAllButBackslash(s) == \* mutant: the backslash itself is not escaped
  FlattenSeq([i \in DOMAIN s |->
    IF s[i] \in DOMAIN EscapeLetter \ {BSLASH}
    THEN <<BSLASH, EscapeLetter[s[i]]>> ELSE <<s[i]>>])

Escaped(c) ==
  IF c \in DOMAIN EscapeLetter THEN <<BSLASH, EscapeLetter[c]>> ELSE <<c>>

escape(s) == FlattenSeq([i \in DOMAIN s |-> Escaped(s[i])])

Quoted(s) == <<QUOTE>> \o escape(s) \o <<QUOTE>>

(* "[a,b,c]" of the given parts.                                           *)
Bracketed(parts) ==
  <<OPEN>> \o FlattenSeq([i \in DOMAIN parts |->
                            IF i = 1 THEN parts[i] ELSE <<COMMA>> \o parts[i]])
           \o <<CLOSE>>

serialize_tags(tags) ==
  Bracketed([i \in DOMAIN tags |->
    Bracketed([j \in DOMAIN tags[i] |-> Quoted(tags[i][j])])])

(* How format! and to_string write an unsigned integer.                    *)
Decimal[n \in Nat] ==
  IF n < 10 THEN <<ZERO + n>> ELSE Append(Decimal[n \div 10], ZERO + (n % 10))

(* The bytes an id is the hash of.  The public key is not escaped.         *)
canonical(pubkey, created_at, kind, tags, content) ==
  Bracketed(<< <<ZERO>>, <<QUOTE>> \o pubkey \o <<QUOTE>>,
               Decimal[created_at], Decimal[kind],
               serialize_tags(tags), Quoted(content) >>)

Sha256(bytes) == [sha256 |-> bytes]

event_id(pubkey, created_at, kind, tags, content) ==
  Sha256(canonical(pubkey, created_at, kind, tags, content))

-----------------------------------------------------------------------------
(* Mining: the serialisation is split around the digits of the nonce.      *)

(* The digits of the nonce as they are written into a fixed array: least   *)
(* significant first, until the quotient is 0.  A u64 has at most 20, which*)
(* is what the array holds.                                                *)
Written[n \in Nat] ==
  IF n \div 10 = 0 THEN <<ZERO + (n % 10)>>
  ELSE <<ZERO + (n % 10)>> \o Written[n \div 10]

(* Each is written before the one before: the used part reads backwards.   *)
NonceDigits(nonce) == Reverse(Written[nonce])

OpenTagsAlways(tags) == \* mutant: the case of no tags is forgotten
  Front(serialize_tags(tags)) \o <<COMMA>>

(* The other tags with the array left open: "[" or "[a,b,".                *)
OpenTags(tags) ==
  IF tags = <<>> THEN <<OPEN>> ELSE Front(serialize_tags(tags)) \o <<COMMA>>

NonceTag(nonce, difficulty) == <<NONCE, Decimal[nonce], Decimal[difficulty]>>

FastPathId(pubkey, created_at, kind, tags, content, difficulty, nonce) ==
  LET prefix ==
        <<OPEN, ZERO, COMMA, QUOTE>> \o pubkey \o <<QUOTE, COMMA>>
        \o Decimal[created_at] \o <<COMMA>> \o Decimal[kind] \o <<COMMA>>
        \o OpenTags(tags)
        \o <<OPEN, QUOTE>> \o NONCE \o <<QUOTE, COMMA, QUOTE>>
      suffix ==
        <<QUOTE, COMMA, QUOTE>> \o Decimal[difficulty]
        \o <<QUOTE, CLOSE, CLOSE, COMMA, QUOTE>> \o escape(content)
        \o <<QUOTE, CLOSE>>
  IN  Sha256(prefix \o NonceDigits(nonce) \o suffix)

-----------------------------------------------------------------------------
Init ==
  /\ signed = {}
  /\ wire = {}
  /\ alterations = 0
  /\ verdict = "none"

Event(a, t, k, tags, c, id) ==
  [parses |-> TRUE, pubkey |-> <<a>>, created_at |-> t, kind |-> k,
   tags |-> tags, content |-> c, id |-> id, sig |-> [key |-> a, over |-> id]]

Publish(e) ==
  /\ signed' = signed \cup {e}
  /\ wire' = {e}
  /\ UNCHANGED <<alterations, verdict>>

(* sign_event_with_key with difficulty 0.                                  *)
Sign(a, t, k, tags, c) ==
  /\ Cardinality(signed) < MaxSigned
  /\ alterations = 0
  /\ k < U32
  /\ Publish(Event(a, t, k, tags, c, event_id(<<a>>, t, k, tags, c)))

(* ... and with a difficulty d: mine() returns the tags with the nonce tag *)
(* appended and the id of the fast path; a release build does not compare  *)
(* that id with event_id().                                                *)
SignMined(a, t, k, tags, c, d, n) ==
  /\ Cardinality(signed) < MaxSigned
  /\ alterations = 0
  /\ k < U32
  /\ Publish(Event(a, t, k, Append(tags, NonceTag(n, d)), c,
                   FastPathId(<<a>>, t, k, tags, c, d, n)))

(* What a relay may put in a field.  It can hash, and it can copy what was *)
(* signed; it cannot sign.  A reader's hex decoder takes upper case too.   *)
PubkeyTexts == {<<a>> : a \in Authors} \cup {<<a - 32>> : a \in Authors}
               \cup {<<QUOTE>>}

Alter ==
  /\ alterations < MaxAlterations
  /\ verdict = "none"
  /\ \E e \in wire :
       \/ \E k \in Kinds : wire' = {[e EXCEPT !.kind = k]}
       \/ \E t \in Times : wire' = {[e EXCEPT !.created_at = t]}
       \/ \E s \in TagLists : wire' = {[e EXCEPT !.tags = s]}
       \/ \E c \in Contents : wire' = {[e EXCEPT !.content = c]}
       \/ \E p \in PubkeyTexts : wire' = {[e EXCEPT !.pubkey = p]}
       \/ wire' = {[e EXCEPT !.id = event_id(e.pubkey, e.created_at,
                                             e.kind % U32, e.tags, e.content)]}
       \/ \E s \in signed : wire' = {[e EXCEPT !.sig = s.sig]}
       \/ wire' = {[e EXCEPT !.parses = FALSE]}
  /\ alterations' = alterations + 1
  /\ UNCHANGED <<signed, verdict>>

IsHex(pubkey) == \A i \in DOMAIN pubkey : pubkey[i] \in (97..102) \cup (65..70)

(* The key a hex string decodes to.                                        *)
DecodeKey(pubkey) == IF pubkey[1] >= 97 THEN pubkey[1] ELSE pubkey[1] + 32

SignatureOnly(e) == \* mutant: the id is taken from the event
  IF ~e.parses \/ ~IsHex(e.pubkey) THEN "err"
  ELSE IF e.sig = [key |-> DecodeKey(e.pubkey), over |-> e.id]
       THEN "yes" ELSE "no"

(* The id is recomputed from the parsed fields, with the kind cut to 32    *)
(* bits, and compared; then the signature is verified over the id.         *)
verify_event_json(e) ==
  LET recomputed == event_id(e.pubkey, e.created_at, e.kind % U32,
                             e.tags, e.content)
  IN  IF ~e.parses THEN "err"
      ELSE IF recomputed # e.id THEN "no"
      ELSE IF ~IsHex(e.pubkey) THEN "err"
      ELSE IF e.sig = [key |-> DecodeKey(e.pubkey), over |-> recomputed]
           THEN "yes" ELSE "no"

Verify ==
  /\ verdict = "none"
  /\ \E e \in wire : verdict' = verify_event_json(e)
  /\ UNCHANGED <<signed, wire, alterations>>

(* The reader is done with the event.                                      *)
Read ==
  /\ verdict # "none"
  /\ wire' = {}
  /\ signed' = {}
  /\ alterations' = 0
  /\ verdict' = "none"

Next ==
  \/ \E a \in Authors, t \in Times, k \in Kinds, s \in TagLists, c \in Contents :
       \/ Sign(a, t, k, s, c)
       \/ \E n \in Nonces : SignMined(a, t, k, s, c, 1, n)
  \/ Alter
  \/ Verify
  \/ Read

Spec == Init /\ [][Next]_vars

-----------------------------------------------------------------------------
Fields(e) == <<e.pubkey, e.created_at, e.kind, e.tags, e.content>>

(* A verified event is one its author signed, field by field, but for the  *)
(* kind beyond 32 bits: no two events share a canonical form, and neither  *)
(* an id nor a signature can be carried over to other fields.              *)
VerifiedIsSigned ==
  verdict = "yes" =>
    \A e \in wire : \E s \in signed :
      Fields([e EXCEPT !.kind = e.kind % U32]) = Fields(s)

(* An event that arrives as it was signed verifies, a mined one too: the   *)
(* fast path hashed the bytes the reader recomputes.                       *)
HonestVerifies ==
  verdict \in {"no", "err"} => \A e \in wire : e \notin signed

(* The tests and the README say that changing any field, the kind among    *)
(* them, makes an event fail.                                              *)
TamperingRejected ==
  verdict = "yes" => \A e \in wire : \E s \in signed : Fields(e) = Fields(s)
=============================================================================
