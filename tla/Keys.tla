-------------------------------- MODULE Keys --------------------------------
(***************************************************************************)
(* What one secret means to the three libraries that take it: the wasm     *)
(* money signer (src/lib.rs), the mobile Signer and the chat identity.     *)
(* Each tells a recovery phrase from a 64-hex key by itself.               *)
(*                                                                         *)
(* Derivation is ideal: distinct inputs give distinct keys.  A viewing key *)
(* and the part of an address after its prefix belong to exactly one       *)
(* spending key, so the key stands for each of them.  A function that      *)
(* fails returns {}, one that succeeds the set of its one result.          *)
(***************************************************************************)
EXTENDS Integers

CONSTANTS
  BadSeeds,      \* raw 32-byte seeds that are no Orchard spending keys
  HARDENED       \* 2^31: the first hardened index

ASSUME KeysAssumption == HARDENED \in Nat \ {0}

-----------------------------------------------------------------------------
(* Secrets as strings: what they spell, and how they are typed.            *)

RawKey(s)       == [origin |-> s, account |-> 0]
ZipKey(p, a)    == [origin |-> p, account |-> a]
Valid(k)        == k.origin \notin BadSeeds

Typed(f, b, p, m) == [form |-> f, body |-> b, padded |-> p, messy |-> m]

Phrase(p)  == Typed("phrase", p, FALSE, FALSE)
Hex(k)     == Typed("hex", k, FALSE, FALSE)
Junk(f)    == Typed(f, f, FALSE, FALSE)

trim(s) == Typed(s.form, s.body, FALSE, s.messy)

(* s.len() == 64 and every character a hex digit, of either case.          *)
IsHex64(s) == s.form = "hex" /\ ~s.padded

(* Words split at white space, in lower case, with a right checksum.       *)
Mnemonic(s) == IF s.form = "phrase" THEN {s.body} ELSE {}

-----------------------------------------------------------------------------
(* Networks and addresses.                                                 *)

(* How a caller may spell a network, and its lower case.                   *)
Lowercase == [mainnet |-> "mainnet", Mainnet |-> "mainnet",
              testnet |-> "testnet", moon |-> "moon"]
Networks == DOMAIN Lowercase
Prefixes == {"mainnet", "testnet"}

prefix_from(network) == {Lowercase[network]} \cap Prefixes

address_string(prefix, k) == [prefix |-> prefix, raw |-> k]

-----------------------------------------------------------------------------
(* The money signer.                                                       *)

ResolveUntrimmed(s) == \* mutant: the white space around a key counts
  IF IsHex64(s) THEN {s.body} ELSE {ZipKey(p, 0) : p \in Mnemonic(s)}

(* A key is taken verbatim, a phrase stands for its account 0.             *)
resolve_secret(s) ==
  IF IsHex64(trim(s)) THEN {s.body} ELSE {ZipKey(p, 0) : p \in Mnemonic(s)}

address_from_seed(s) == {k \in resolve_secret(s) : Valid(k)}

AccountSecretZero(s, a) == \* mutant: the account index is lost on the way
  {ZipKey(p, 0) : p \in IF a < HARDENED THEN Mnemonic(s) ELSE {}}

account_secret(s, a) ==
  {ZipKey(p, a) : p \in IF a < HARDENED THEN Mnemonic(s) ELSE {}}

account_seed_hex(s, a) == {Hex(k) : k \in account_secret(s, a)}

account_address(s, a) == {k \in account_secret(s, a) : Valid(k)}

-----------------------------------------------------------------------------
(* The mobile signer.                                                      *)

AccountKeyDerived(s) == \* mutant: an account is derived from a key, too
  IF IsHex64(s) THEN {Hex(ZipKey(s.body, 0))} ELSE account_seed_hex(s, 0)

(* A 64-hex secret as it is, otherwise account 0 of the phrase.            *)
account_key(s) == IF IsHex64(s) THEN {s} ELSE account_seed_hex(s, 0)

SignerAddress(s) == UNION {address_from_seed(h) : h \in account_key(s)}

FromSecretUnchecked(s, network) == {trim(s)} \* mutant: no address is derived

(* A trial address on the network named is derived; the secret is kept.    *)
from_secret(s, network) ==
  {t \in {trim(s)} : prefix_from(network) # {} /\ SignerAddress(t) # {}}

-----------------------------------------------------------------------------
(* Messages signed to prove control of an address.                         *)

TagAsTyped(network) == {network : p \in prefix_from(network)}
  \* mutant: the network as the caller spells it

(* The tag a message is signed under names the network of the address.     *)
message_tag(network) == prefix_from(network)

sign(s, network, message) ==
  {[fvk |-> k, by |-> k, over |-> <<tag, message>>] :
     k \in address_from_seed(s), tag \in message_tag(network)}

(* The key in the signature must be that of the address, the signature be  *)
(* by that key, and over the tag of the address and the message.           *)
verify(address, message, sig) ==
  /\ sig.fvk = address.raw
  /\ sig.by = sig.fvk
  /\ sig.over = <<address.prefix, message>>

sign_message(s, network, message) ==
  UNION {sign(h, network, message) : h \in account_key(s)}

-----------------------------------------------------------------------------
(* The chat identity.                                                      *)

Masked(i) == IF i >= HARDENED THEN HARDENED ELSE 0 \* mutant: i & HARDENED

(* index | HARDENED.                                                       *)
Hardened(i) == IF i >= HARDENED THEN i ELSE i + HARDENED

(* m/44'/1237'/account'/0/0.                                               *)
Path(a) == <<Hardened(44), Hardened(1237), Hardened(a), 0, 0>>

(* BIP-32: the master node of a seed, and down the path a child per index. *)
derive_nip06(seed, a, nip06) == [root |-> seed, path |-> Path(a), nip06 |-> nip06]

FromPhrase(s, a) == {derive_nip06(p, a, TRUE) : p \in Mnemonic(s)}

FromLegacy(s, a) == {derive_nip06(s.body, a, FALSE)}

ChatUntrimmed(s, a) == \* mutant: the white space around a key counts
  IF IsHex64(s) THEN FromLegacy(s, a) ELSE FromPhrase(s, a)

(* A phrase gives the NIP-06 identity, a key one of the legacy domain.     *)
chat_identity(s, a) ==
  IF IsHex64(trim(s)) THEN FromLegacy(s, a) ELSE FromPhrase(s, a)

-----------------------------------------------------------------------------
(* NIP-19 strings.  An x-only public key belongs to one secret key; as     *)
(* bytes it could pass for a secret key itself.  Bytes may be fewer than   *)
(* 32, and 32 bytes may be no scalar that secp256k1 accepts.               *)

TooShort == [damage |-> "cut off"]
NoScalar == [damage |-> "zeroed"]

pubkey_for_key(sk) == [public |-> sk]

Bech32(hrp, bytes, variant) == [hrp |-> hrp, bytes |-> bytes, variant |-> variant]

nsec(sk) == Bech32("nsec", sk, "bech32")
npub(sk) == Bech32("npub", pubkey_for_key(sk), "bech32")

AnyHrp(expect_hrp, s) == \* mutant: the prefix is not looked at
  IF s.variant = "bech32" /\ s.bytes # TooShort THEN {s.bytes} ELSE {}

decode_nip19(expect_hrp, s) ==
  IF s.hrp = expect_hrp /\ s.variant = "bech32" /\ s.bytes # TooShort
  THEN {s.bytes} ELSE {}

nsec_to_hex(s) == decode_nip19("nsec", s) \ {NoScalar}
=============================================================================
