----------------------------- MODULE KeysProofs -----------------------------
(***************************************************************************)
(* The libraries resolve every secret alike, whatever it spells and in     *)
(* whatever way it is typed.                                               *)
(***************************************************************************)
EXTENDS Keys, TLAPS

(* The white space around a secret does not change its key.                *)
LEMMA TrimResolves ==
  ASSUME NEW s
  PROVE  address_from_seed(trim(s)) = address_from_seed(s)
BY DEF trim, Typed, address_from_seed, resolve_secret, IsHex64, Mnemonic

(* A secret has one key at most.                                           *)
LEMMA OneKey ==
  ASSUME NEW s, NEW k \in address_from_seed(s), NEW l \in address_from_seed(s)
  PROVE  k = l
BY DEF address_from_seed, resolve_secret, Mnemonic

(* The phone and the web wallet resolve a secret alike.                    *)
LEMMA PhoneResolves ==
  ASSUME NEW s
  PROVE  SignerAddress(trim(s)) = address_from_seed(s)
<1> DEFINE t == trim(s)
<1>1. t.form = s.form /\ t.body = s.body /\ t.padded = FALSE /\ trim(t) = t
  BY DEF trim, Typed
<1>2. address_from_seed(t) = address_from_seed(s)
  BY <1>1 DEF address_from_seed, resolve_secret, IsHex64, Mnemonic
<1>3. SignerAddress(t) = address_from_seed(t)
  <2>1. CASE s.form = "hex"
    <3>1. account_key(t) = {t}
      BY <1>1, <2>1 DEF account_key, IsHex64
    <3> QED
      BY <3>1 DEF SignerAddress
  <2>2. CASE s.form = "phrase"
    <3>1. account_key(t) = {Hex(ZipKey(s.body, 0))}
      BY <1>1, <2>2, KeysAssumption
      DEF account_key, IsHex64, account_seed_hex, account_secret, Mnemonic
    <3>2. address_from_seed(Hex(ZipKey(s.body, 0))) = {k \in {ZipKey(s.body, 0)} : Valid(k)}
      BY DEF address_from_seed, resolve_secret, IsHex64, Hex, Typed, trim
    <3>3. address_from_seed(t) = {k \in {ZipKey(s.body, 0)} : Valid(k)}
      BY <1>1, <2>2 DEF address_from_seed, resolve_secret, IsHex64, Mnemonic
    <3> QED
      BY <3>1, <3>2, <3>3 DEF SignerAddress
  <2>3. CASE s.form \notin {"hex", "phrase"}
    <3>1. account_key(t) = {}
      BY <1>1, <2>3
      DEF account_key, IsHex64, account_seed_hex, account_secret, Mnemonic
    <3>2. address_from_seed(t) = {}
      BY <1>1, <2>3 DEF address_from_seed, resolve_secret, IsHex64, Mnemonic
    <3> QED
      BY <3>1, <3>2 DEF SignerAddress
  <2> QED
    BY <2>1, <2>2, <2>3
<1> QED
  BY <1>2, <1>3

(* On a network that exists, what opens a signer is what has an address.   *)
LEMMA SignerOpens ==
  ASSUME NEW s, NEW n, prefix_from(n) # {}
  PROVE  UNION {SignerAddress(t) : t \in from_secret(s, n)} = address_from_seed(s)
<1>1. from_secret(s, n) = IF address_from_seed(s) # {} THEN {trim(s)} ELSE {}
  BY PhoneResolves DEF from_secret
<1> QED
  BY <1>1, PhoneResolves

LEMMA OneSigner ==
  ASSUME NEW s, NEW k \in SignerAddress(s), NEW l \in SignerAddress(s)
  PROVE  k = l
BY OneKey DEF SignerAddress, account_key, account_seed_hex, account_secret, Mnemonic

(* The chat identity and the money key come of one reading of a secret.    *)
LEMMA ChatResolves ==
  ASSUME NEW s, NEW a
  PROVE  {IF i.nip06 THEN ZipKey(i.root, 0) ELSE i.root : i \in chat_identity(s, a)}
           = resolve_secret(s)
<1> DEFINE Read(i) == IF i.nip06 THEN ZipKey(i.root, 0) ELSE i.root
<1>1. CASE IsHex64(trim(s))
  <2> DEFINE i == [root |-> s.body, path |-> Path(a), nip06 |-> FALSE]
  <2>1. chat_identity(s, a) = {i} /\ Read(i) = s.body
    BY <1>1 DEF chat_identity, FromLegacy, derive_nip06
  <2>2. resolve_secret(s) = {s.body}
    BY <1>1 DEF resolve_secret
  <2> QED
    BY <2>1, <2>2
<1>2. CASE ~IsHex64(trim(s)) /\ s.form = "phrase"
  <2> DEFINE i == [root |-> s.body, path |-> Path(a), nip06 |-> TRUE]
  <2>1. chat_identity(s, a) = {i} /\ Read(i) = ZipKey(s.body, 0)
    BY <1>2 DEF chat_identity, FromPhrase, derive_nip06, Mnemonic
  <2>2. resolve_secret(s) = {ZipKey(s.body, 0)}
    BY <1>2 DEF resolve_secret, Mnemonic
  <2> QED
    BY <2>1, <2>2
<1>3. CASE ~IsHex64(trim(s)) /\ s.form # "phrase"
  BY <1>3 DEF chat_identity, FromPhrase, Mnemonic, resolve_secret
<1> QED
  BY <1>1, <1>2, <1>3

=============================================================================
