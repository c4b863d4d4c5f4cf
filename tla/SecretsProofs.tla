--------------------------- MODULE SecretsProofs ----------------------------
(***************************************************************************)
(* Every address shown belongs to the backup, for any phrases, seeds and   *)
(* account indexes; and the libraries agree about every secret.            *)
(***************************************************************************)
EXTENDS Secrets, KeysProofs

(* A secret t taken for account a of the backup s: the phrase itself,      *)
(* which stands for its account 0, or the key of that account.             *)
Stands(t, s, a) ==
  /\ t.form = "phrase" => s.form = "phrase" /\ t.body = s.body /\ a = 0
  /\ t.form = "hex" => t.body = KeyOf(s, a)

(* The strengthening of SameWallet: the secret, and that of an open        *)
(* signer, stand for the account the app takes them for.                   *)
SecretInv ==
  /\ backup = {} => shown = {} /\ signer = {} /\ wallet = 0
  /\ \A s, t \in backup : s = t
  /\ \A s \in backup :
       /\ s.form \in {"phrase", "hex"}
       /\ Stands(secret, s, wallet)
       /\ \A r \in signer : Stands(r.secret, s, r.account)

(* A secret that stands for account a opens the key of account a.          *)
LEMMA OpensItsAccount ==
  ASSUME NEW t, NEW s, NEW a, s.form \in {"phrase", "hex"},
         Stands(t, s, a), NEW k \in address_from_seed(t)
  PROVE  k = KeyOf(s, a)
<1>1. trim(t).form = t.form /\ trim(t).body = t.body
  BY DEF trim, Typed
<1>2. CASE t.form = "hex"
  BY <1>1, <1>2 DEF address_from_seed, resolve_secret, IsHex64, Stands, Mnemonic, trim
<1>3. CASE t.form = "phrase"
  BY <1>1, <1>3 DEF address_from_seed, resolve_secret, IsHex64, Stands, Mnemonic, KeyOf
<1> QED
  BY <1>1, <1>2, <1>3 DEF address_from_seed, resolve_secret, IsHex64, Mnemonic

(* A signer that opens holds the secret it was made of, trimmed.           *)
LEMMA OpensTheSecret ==
  ASSUME NEW t, NEW n, NEW r \in from_secret(t, n)
  PROVE  r = trim(t)
BY DEF from_secret

(* The white space and the capitals of a secret do not matter to what it   *)
(* stands for, nor does a string that spells nothing.                      *)
LEMMA TypedStands ==
  ASSUME NEW t, NEW s, NEW a, NEW p, NEW m, Stands(t, s, a)
  PROVE  Stands(Typed(t.form, t.body, p, m), s, a)
BY DEF Stands, Typed

LEMMA JunkStands ==
  ASSUME NEW f, f \notin {"phrase", "hex"}, NEW s, NEW a
  PROVE  Stands(Junk(f), s, a)
BY DEF Stands, Junk, Typed

(* On the phone a secret opens the account it stands for, too.             *)
LEMMA PhoneKeys ==
  ASSUME NEW t, NEW s, NEW a, s.form \in {"phrase", "hex"}, Stands(t, s, a),
         NEW k \in SignerAddress(t)
  PROVE  k = KeyOf(s, a)
<1>1. PICK h \in account_key(t) : k \in address_from_seed(h)
  BY DEF SignerAddress
<1>2. CASE IsHex64(t)
  <2>1. h = t
    BY <1>1, <1>2 DEF account_key
  <2> QED
    BY <1>1, <2>1, OpensItsAccount
<1>3. CASE ~IsHex64(t)
  <2>1. PICK p \in Mnemonic(t) : h = Hex(ZipKey(p, 0))
    BY <1>1, <1>3 DEF account_key, account_seed_hex, account_secret
  <2>2. s.form = "phrase" /\ s.body = p /\ a = 0
    BY <2>1 DEF Mnemonic, Stands
  <2>3. Stands(h, s, a)
    BY <2>1, <2>2 DEF Stands, Hex, Typed, KeyOf
  <2> QED
    BY <1>1, <2>3, OpensItsAccount
<1> QED
  BY <1>2, <1>3

LEMMA SecretInit == Init => SecretInv /\ SameWallet
BY DEF Init, SecretInv, SameWallet

(* The first secret is the backup, and stands for its account 0.           *)
LEMMA BackupStands ==
  ASSUME NEW s, s.form \in {"phrase", "hex"}
  PROVE  Stands(s, s, 0)
BY DEF Stands, KeyOf

LEMMA SecretStep ==
  ASSUME SecretInv, SameWallet, [Next]_vars
  PROVE  SecretInv' /\ SameWallet'
<1> USE DEF SecretInv, SameWallet
<1>1. ASSUME NEW s, Start(s, KeyOf(s, 0)), s.form \in {"phrase", "hex"}
      PROVE  SecretInv' /\ SameWallet'
  <2>1. Stands(s, s, 0)
    BY <1>1, BackupStands
  <2> QED
    BY <1>1, <2>1 DEF Start
<1>2. ASSUME NEW p \in Phrases, new_wallet_mnemonic(p)
      PROVE  SecretInv' /\ SameWallet'
  <2>1. Phrase(p).form = "phrase" /\ KeyOf(Phrase(p), 0) = ZipKey(p, 0)
    BY DEF Phrase, Typed, KeyOf
  <2> QED
    BY <1>1, <1>2, <2>1 DEF new_wallet_mnemonic
<1>3. ASSUME NEW s \in Seeds, new_wallet(s)
      PROVE  SecretInv' /\ SameWallet'
  <2>1. Hex(RawKey(s)).form = "hex" /\ KeyOf(Hex(RawKey(s)), 0) = RawKey(s)
    BY DEF Hex, Typed, KeyOf
  <2> QED
    BY <1>1, <1>3, <2>1 DEF new_wallet
<1>4. ASSUME NEW s, Import(s), s.form \in {"phrase", "hex"}
      PROVE  SecretInv' /\ SameWallet'
  <2>1. wallet = 0
    BY <1>4 DEF Import
  <2>2. Stands(s, s, 0)
    BY <1>4, BackupStands
  <2> QED
    BY <1>4, <2>1, <2>2 DEF Import
<1>5. CASE Retype
  <2>1. \A s \in backup : Stands(secret', s, wallet)
    <3>1. CASE \E p, m \in BOOLEAN : secret' = Typed(secret.form, secret.body, p, m)
      BY <3>1, TypedStands
    <3>2. CASE \E f \in {"empty", "typo", "short hex"} : secret' = Junk(f)
      <4>1. PICK f \in {"empty", "typo", "short hex"} : secret' = Junk(f)
        BY <3>2
      <4>2. f \notin {"phrase", "hex"}
        OBVIOUS
      <4> QED
        BY <4>1, <4>2, JunkStands
    <3> QED
      BY <1>5, <3>1, <3>2 DEF Retype
  <2> QED
    BY <1>5, <2>1 DEF Retype
<1>6. ASSUME NEW a \in Accounts, StoreAccountKey(a)
      PROVE  SecretInv' /\ SameWallet'
  <2>1. PICK p \in Mnemonic(secret) : secret' = Hex(ZipKey(p, a))
    BY <1>6 DEF StoreAccountKey, account_seed_hex, account_secret
  <2>2. secret.form = "phrase" /\ p = secret.body
    BY <2>1 DEF Mnemonic
  <2>3. ASSUME NEW s \in backup
        PROVE  Stands(secret', s, a)
    <3>1. s.form = "phrase" /\ s.body = p
      BY <2>2 DEF Stands
    <3> QED
      BY <3>1, <2>1 DEF Stands, Hex, Typed, KeyOf
  <2> QED
    BY <1>6, <2>3 DEF StoreAccountKey
<1>7. CASE Restore
  <2>1. PICK t \in backup : secret' = t
    BY <1>7 DEF Restore
  <2>2. \A s \in backup : s = t
    BY DEF SecretInv
  <2> QED
    BY <1>7, <2>1, <2>2, BackupStands DEF Restore
<1>8. CASE ShowAddress
  <2>1. ASSUME NEW k \in address_from_seed(secret), NEW s \in backup
        PROVE  k = KeyOf(s, wallet)
    BY <2>1, OpensItsAccount
  <2> QED
    BY <1>8, <2>1 DEF ShowAddress, Show
<1>9. ASSUME NEW a \in Accounts, ShowAccount(a)
      PROVE  SecretInv' /\ SameWallet'
  <2>1. ASSUME NEW k \in account_address(secret, a), NEW s \in backup
        PROVE  k = KeyOf(s, a)
    BY <2>1 DEF account_address, account_secret, Mnemonic, Stands, KeyOf
  <2> QED
    BY <1>9, <2>1 DEF ShowAccount, Show
<1>10. CASE ShowOnPhone
  <2>1. PICK r \in signer : Show(r.account, SignerAddress(r.secret))
    BY <1>10 DEF ShowOnPhone
  <2>2. ASSUME NEW k \in SignerAddress(r.secret), NEW s \in backup
        PROVE  k = KeyOf(s, r.account)
    BY <2>2, PhoneKeys
  <2> QED
    BY <2>1, <2>2 DEF Show
<1>11. CASE OpenSigner
  <2>1. PICK n \in Networks : \E t \in from_secret(secret, n) :
          signer' = {[secret |-> t, account |-> wallet]}
    BY <1>11 DEF OpenSigner
  <2> PICK t \in from_secret(secret, n) : signer' = {[secret |-> t, account |-> wallet]}
    BY <2>1
  <2>2. ASSUME NEW s \in backup
        PROVE  Stands(t, s, wallet)
    <3>1. t = Typed(secret.form, secret.body, FALSE, secret.messy)
      BY OpensTheSecret DEF trim
    <3>2. Stands(secret, s, wallet)
      OBVIOUS
    <3> QED
      BY <3>1, <3>2, TypedStands
  <2>3. backup # {} /\ UNCHANGED <<backup, secret, wallet, shown, room>>
    BY <1>11 DEF OpenSigner
  <2> DEFINE r == [secret |-> t, account |-> wallet]
  <2>4. r.secret = t /\ r.account = wallet
    OBVIOUS
  <2>5. \A s \in backup, q \in signer' : Stands(q.secret, s, q.account)
    BY <2>2, <2>4
  <2> HIDE DEF r
  <2> QED
    BY <2>3, <2>5
<1>12. CASE DropSigner
  BY <1>12 DEF DropSigner
<1>13. ASSUME NEW a \in Accounts, EnterRoom(a)
       PROVE  SecretInv' /\ SameWallet'
  BY <1>13 DEF EnterRoom
<1>14. CASE UNCHANGED vars
  BY <1>14 DEF vars
<1>17. CASE ImportIdentity
  BY <1>17 DEF ImportIdentity
<1>15. \A p : Phrase(p).form = "phrase"
  BY DEF Phrase, Typed
<1>16. \A k : Hex(k).form = "hex"
  BY DEF Hex, Typed
<1> QED
  BY <1>2, <1>3, <1>4, <1>5, <1>6, <1>7, <1>8, <1>9, <1>10, <1>11, <1>12, <1>13,
     <1>14, <1>15, <1>16, <1>17 DEF Next

(* A signature by the key of account a proves what Proves says.            *)
LEMMA SignatureProves ==
  ASSUME NEW t, NEW s, NEW a, NEW n \in Networks, NEW m \in Messages,
         \A k \in address_from_seed(t) : k = KeyOf(s, a),
         NEW g \in sign(t, n, m)
  PROVE  Proves(g, s, a, n, m)
<1> DEFINE k == KeyOf(s, a)
<1>1. PICK tag \in message_tag(n) : g = [fvk |-> k, by |-> k, over |-> <<tag, m>>]
  BY DEF sign
<1>2. tag = Lowercase[n]
  BY <1>1 DEF message_tag, prefix_from
<1> HIDE DEF k
<1>3. g.fvk = k /\ g.by = k /\ g.over = <<Lowercase[n], m>>
  BY <1>1, <1>2
<1>4. ASSUME NEW x \in shown, NEW p \in Prefixes, NEW l \in Messages
      PROVE  verify(address_string(p, x[2]), l, g)
               <=> x[2] = k /\ p = Lowercase[n] /\ l = m
  <2>1. address_string(p, x[2]).raw = x[2] /\ address_string(p, x[2]).prefix = p
    BY DEF address_string
  <2>2. verify(address_string(p, x[2]), l, g) <=> k = x[2] /\ <<Lowercase[n], m>> = <<p, l>>
    BY <1>3, <2>1 DEF verify
  <2> QED
    BY <2>2
<1> QED
  BY <1>4 DEF Proves, k

LEMMA SignedProves == SecretInv => ProofsHold
<1> SUFFICES ASSUME SecretInv, NEW s \in backup, NEW n \in Networks, NEW m \in Messages
             PROVE  /\ \A g \in sign(secret, n, m) : Proves(g, s, wallet, n, m)
                    /\ \A r \in signer : \A g \in sign_message(r.secret, n, m) :
                         Proves(g, s, r.account, n, m)
  BY DEF ProofsHold
<1>1. ASSUME NEW g \in sign(secret, n, m)
      PROVE  Proves(g, s, wallet, n, m)
  <2>1. \A k \in address_from_seed(secret) : k = KeyOf(s, wallet)
    BY OpensItsAccount DEF SecretInv
  <2> QED
    BY <2>1, SignatureProves
<1>2. ASSUME NEW r \in signer, NEW g \in sign_message(r.secret, n, m)
      PROVE  Proves(g, s, r.account, n, m)
  <2>1. PICK h \in account_key(r.secret) : g \in sign(h, n, m)
    BY DEF sign_message
  <2>2. \A k \in SignerAddress(r.secret) : k = KeyOf(s, r.account)
    BY PhoneKeys DEF SecretInv
  <2>3. \A k \in address_from_seed(h) : k = KeyOf(s, r.account)
    BY <2>2 DEF SignerAddress
  <2> QED
    BY <2>1, <2>3, SignatureProves
<1> QED
  BY <1>1, <1>2

-----------------------------------------------------------------------------
(* Chat rooms.                                                             *)

(* What the app may ever have for a secret: the backup, or the key of one  *)
(* of its accounts, however typed.                                         *)
Held(s) == {s} \cup {Hex(KeyOf(s, a)) : a \in Accounts}

RoomInv ==
  /\ backup = {} => room = {}
  /\ \A s, t \in backup : s = t
  /\ \A x, y \in room : x = y
  /\ \A x \in room : x[1] \in Accounts /\ x = <<x[1], x[2]>>
  /\ \A s \in backup :
       /\ s.form \in {"phrase", "hex"}
       /\ secret.form \in {"phrase", "hex"} =>
            \E t \in Held(s) : secret.form = t.form /\ secret.body = t.body
       /\ \A x \in room : \E t \in Held(s) : x[2] \in chat_identity(t, x[1])

(* An identity depends on what a secret spells, not on how it is typed.    *)
LEMMA IdentityOfSecret ==
  ASSUME NEW s, NEW t, s.form = t.form, s.body = t.body, NEW a
  PROVE  chat_identity(s, a) = chat_identity(t, a)
BY DEF chat_identity, IsHex64, trim, Typed, FromLegacy, FromPhrase, Mnemonic

LEMMA NoIdentityOfJunk ==
  ASSUME NEW s, s.form \notin {"phrase", "hex"}, NEW a
  PROVE  chat_identity(s, a) = {}
BY DEF chat_identity, IsHex64, trim, Typed, FromPhrase, Mnemonic

LEMMA IdentityHasPath ==
  ASSUME NEW s, NEW a, NEW i \in chat_identity(s, a)
  PROVE  i.path = Path(a)
BY DEF chat_identity, FromLegacy, FromPhrase, derive_nip06

(* An nsec brings back the very key it was made of, an npub none.          *)
LEMMA ImportedKey ==
  ASSUME NEW k, NEW v, NEW text \in {nsec(k), npub(k)},
         NEW bytes \in {text.bytes, TooShort, NoScalar},
         NEW sk \in nsec_to_hex(Bech32(text.hrp, bytes, v))
  PROVE  sk = k
<1>1. CASE text = nsec(k)
  BY <1>1 DEF nsec, Bech32, nsec_to_hex, decode_nip19
<1>2. CASE text = npub(k)
  BY <1>2 DEF npub, Bech32, nsec_to_hex, decode_nip19
<1> QED
  BY <1>1, <1>2

LEMMA RoomInit == Init => RoomInv
BY DEF Init, RoomInv, Junk, Typed

LEMMA RoomStep ==
  ASSUME RoomInv, [Next]_vars
  PROVE  RoomInv'
<1> USE DEF RoomInv
<1>1. ASSUME NEW s, backup = {}, backup' = {s}, secret' = s, UNCHANGED room,
             s.form \in {"phrase", "hex"}
      PROVE  RoomInv'
  BY <1>1 DEF Held
<1>2. ASSUME NEW p \in Phrases, new_wallet_mnemonic(p) \/ Import(Phrase(p))
      PROVE  RoomInv'
  <2>1. Phrase(p).form = "phrase"
    BY DEF Phrase, Typed
  <2> QED
    BY <1>1, <1>2, <2>1 DEF new_wallet_mnemonic, Start, Import
<1>3. ASSUME NEW s, new_wallet(s) \/ Import(Hex(RawKey(s)))
      PROVE  RoomInv'
  <2>1. Hex(RawKey(s)).form = "hex"
    BY DEF Hex, Typed
  <2> QED
    BY <1>1, <1>3, <2>1 DEF new_wallet, Start, Import
<1>4. ASSUME UNCHANGED <<backup, room>>,
             \A s \in backup : secret'.form \in {"phrase", "hex"} =>
               \E t \in Held(s) : secret'.form = t.form /\ secret'.body = t.body
      PROVE  RoomInv'
  BY <1>4
<1>5. CASE Retype
  <2>1. \/ secret'.form = secret.form /\ secret'.body = secret.body
        \/ secret'.form \notin {"phrase", "hex"}
    <3>1. CASE \E p, m \in BOOLEAN : secret' = Typed(secret.form, secret.body, p, m)
      BY <3>1 DEF Typed
    <3>2. CASE \E f \in {"empty", "typo", "short hex"} : secret' = Junk(f)
      <4>1. PICK f \in {"empty", "typo", "short hex"} : secret' = Junk(f)
        BY <3>2
      <4>2. secret'.form = f
        BY <4>1 DEF Junk, Typed
      <4> QED
        BY <4>2
    <3> QED
      BY <1>5, <3>1, <3>2 DEF Retype
  <2> QED
    BY <1>4, <1>5, <2>1 DEF Retype
<1>6. ASSUME NEW a \in Accounts, StoreAccountKey(a)
      PROVE  RoomInv'
  <2>1. PICK p \in Mnemonic(secret) : secret' = Hex(ZipKey(p, a))
    BY <1>6 DEF StoreAccountKey, account_seed_hex, account_secret
  <2>2. secret.form = "phrase" /\ p = secret.body
    BY <2>1 DEF Mnemonic
  <2>3. ASSUME NEW s \in backup
        PROVE  secret' = Hex(KeyOf(s, a))
    <3>1. PICK t \in Held(s) : secret.form = t.form /\ secret.body = t.body
      BY <2>2
    <3>2. t = s
      BY <2>2, <3>1 DEF Held, Hex, Typed
    <3> QED
      BY <2>1, <2>2, <3>1, <3>2 DEF KeyOf
  <2> QED
    BY <1>4, <1>6, <2>3 DEF StoreAccountKey, Held
<1>7. CASE Restore
  <2>1. PICK t \in backup : secret' = t
    BY <1>7 DEF Restore
  <2> QED
    BY <1>4, <1>7, <2>1 DEF Restore, Held
<1>8. CASE UNCHANGED <<backup, secret, room>>
  BY <1>4, <1>8
<1>9. ASSUME NEW a \in Accounts, EnterRoom(a)
      PROVE  RoomInv'
  <2>1. PICK i \in chat_identity(secret, a) : room' = {<<a, i>>}
    BY <1>9 DEF EnterRoom
  <2>2. secret.form \in {"phrase", "hex"}
    BY <2>1, NoIdentityOfJunk
  <2>3. ASSUME NEW s \in backup
        PROVE  \E t \in Held(s) : i \in chat_identity(t, a)
    <3>1. PICK t \in Held(s) : secret.form = t.form /\ secret.body = t.body
      BY <2>2
    <3> QED
      BY <2>1, <3>1, IdentityOfSecret
  <2>4. backup # {} /\ UNCHANGED <<backup, secret>>
    BY <1>9 DEF EnterRoom
  <2>5. <<a, i>>[1] = a /\ <<a, i>>[2] = i
    OBVIOUS
  <2> QED
    BY <2>1, <2>3, <2>4, <2>5
<1>10. CASE ImportIdentity
  <2>1. PICK x \in room : \E v \in {"bech32", "bech32m"} :
          \E text \in {nsec(x[2]), npub(x[2])} :
          \E bytes \in {text.bytes, TooShort, NoScalar} :
          \E sk \in nsec_to_hex(Bech32(text.hrp, bytes, v)) : room' = {<<x[1], sk>>}
    BY <1>10 DEF ImportIdentity
  <2>2. room' = {x}
    BY <2>1, ImportedKey
  <2> QED
    BY <1>10, <2>1, <2>2 DEF ImportIdentity
<1>11. CASE UNCHANGED vars
  BY <1>8, <1>11 DEF vars
<1>12. CASE ShowAddress \/ ShowOnPhone \/ (\E a \in Accounts : ShowAccount(a))
  BY <1>8, <1>12 DEF ShowAddress, ShowOnPhone, ShowAccount, Show
<1>13. CASE OpenSigner
  BY <1>8, <1>13 DEF OpenSigner
<1>14. CASE DropSigner
  BY <1>8, <1>14 DEF DropSigner
<1> QED
  BY <1>2, <1>3, <1>5, <1>6, <1>7, <1>9, <1>10, <1>11, <1>12, <1>13, <1>14 DEF Next

(* Accounts with one path are the same but for the hardened bit.           *)
LEMMA PathOfAccount ==
  ASSUME NEW a \in 0..(2 * HARDENED - 1), NEW b \in 0..(2 * HARDENED - 1),
         Path(a) = Path(b)
  PROVE  a % HARDENED = b % HARDENED
<1> USE KeysAssumption
<1>1. Path(a)[3] = Hardened(a) /\ Path(b)[3] = Hardened(b)
  BY DEF Path
<1>2. Hardened(a) = Hardened(b)
  BY <1>1
<1>3. ASSUME NEW n \in 0..(HARDENED - 1)
      PROVE  (n + HARDENED) % HARDENED = n % HARDENED
  OBVIOUS
<1>4. a = b \/ a = b + HARDENED \/ b = a + HARDENED
  BY <1>2 DEF Hardened
<1>5. CASE a = b + HARDENED
  <2>1. b \in 0..(HARDENED - 1)
    BY <1>5
  <2> QED
    BY <1>3, <1>5, <2>1
<1>6. CASE b = a + HARDENED
  <2>1. a \in 0..(HARDENED - 1)
    BY <1>6
  <2> QED
    BY <1>3, <1>6, <2>1
<1> QED
  BY <1>4, <1>5, <1>6

LEMMA RoomsStep ==
  ASSUME RoomInv, RoomInv', [Next]_vars,
         NEW x \in room, NEW y \in room', x[1] % HARDENED # y[1] % HARDENED
  PROVE  x[2] # y[2]
<1>1. PICK s \in backup : TRUE
  BY DEF RoomInv
<1>2. PICK t : x[2] \in chat_identity(t, x[1])
  BY <1>1 DEF RoomInv
<1>3. backup' # {}
  BY DEF RoomInv
<1>4. PICK u : y[2] \in chat_identity(u, y[1])
  BY <1>3 DEF RoomInv
<1>5. x[2].path = Path(x[1]) /\ y[2].path = Path(y[1])
  BY <1>2, <1>4, IdentityHasPath
<1>6. x[1] \in 0..(2 * HARDENED - 1) /\ y[1] \in 0..(2 * HARDENED - 1)
  BY SecretsAssumption DEF RoomInv, SecretsAssumption
<1> QED
  BY <1>5, <1>6, PathOfAccount

-----------------------------------------------------------------------------
(* Every address the app ever shows belongs to the backup and to the       *)
(* account it is shown for, for any phrases, seeds and account indexes.    *)
THEOREM ShownBelongs == Spec => []SameWallet
<1>1. SecretInv /\ SameWallet /\ [Next]_vars => SecretInv' /\ SameWallet'
  BY SecretStep
<1> QED
  BY SecretInit, <1>1, PTL DEF Spec

(* The web wallet and the phone take the same secrets and make the same    *)
(* address of each, on every network.                                      *)
THEOREM PhoneAgrees == Spec => []PhoneAndWebAgree
<1>1. PhoneAndWebAgree
  <2> SUFFICES ASSUME NEW n \in Networks
               PROVE  LET web == AddressOn(n, address_from_seed(secret))
                      IN  {AddressOn(n, SignerAddress(s)) : s \in from_secret(secret, n)}
                            = {web} \ {{}}
    BY DEF PhoneAndWebAgree
  <2> DEFINE web == AddressOn(n, address_from_seed(secret))
             Opens == prefix_from(n) # {} /\ address_from_seed(secret) # {}
  <2>1. from_secret(secret, n) = IF Opens THEN {trim(secret)} ELSE {}
    BY PhoneResolves DEF from_secret
  <2>2. web = {} <=> ~Opens
    BY DEF AddressOn
  <2>3. AddressOn(n, SignerAddress(trim(secret))) = web
    BY PhoneResolves
  <2> HIDE DEF web, Opens
  <2>4. {AddressOn(n, SignerAddress(s)) : s \in from_secret(secret, n)} = {web} \ {{}}
    BY <2>1, <2>2, <2>3
  <2> QED
    BY <2>4 DEF web
<1> QED
  BY <1>1, PTL

(* One secret never means two different things to the chat and the money,  *)
(* for any account index.                                                  *)
THEOREM ChatAgrees == Spec => []ChatAndMoneyAgree
<1>1. ChatAndMoneyAgree
  BY ChatResolves DEF ChatAndMoneyAgree
<1> QED
  BY <1>1, PTL

(* A signed message proves control of the address it was signed for, and   *)
(* of no other, for any texts.                                             *)
THEOREM SignedMessageProves == Spec => []ProofsHold
<1>1. SecretInv /\ SameWallet /\ [Next]_vars => SecretInv' /\ SameWallet'
  BY SecretStep
<1> QED
  BY SecretInit, <1>1, SignedProves, PTL DEF Spec

(* Whoever speaks in a room is of the backup.                              *)
THEOREM RoomBelongs == Spec => []RoomIsOfBackup
<1>1. RoomInv /\ [Next]_vars => RoomInv'
  BY RoomStep
<1>2. RoomInv => RoomIsOfBackup
  BY DEF RoomInv, RoomIsOfBackup, Held
<1> QED
  BY RoomInit, <1>1, <1>2, PTL DEF Spec

(* Rooms of different accounts cannot be linked, for any account indexes.  *)
THEOREM RoomsUnlinked == Spec => RoomsDistinct
<1>1. RoomInv /\ [Next]_vars => RoomInv'
  BY RoomStep
<1>2. RoomInv /\ RoomInv' /\ [Next]_vars =>
        [\A x \in room, y \in room' :
           x[1] % HARDENED # y[1] % HARDENED => x[2] # y[2]]_vars
  BY RoomsStep
<1> QED
  BY RoomInit, <1>1, <1>2, PTL DEF Spec, RoomsDistinct
=============================================================================
