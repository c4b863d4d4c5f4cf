------------------------------ MODULE Secrets -------------------------------
(***************************************************************************)
(* The app between the three libraries of Keys: it makes or imports a      *)
(* wallet, retypes its secret, derives the key of an account and stores it *)
(* in place of the secret, restores from the backup, opens a signer, shows *)
(* addresses, proves control of them and enters chat rooms.                *)
(***************************************************************************)
EXTENDS Keys

CONSTANTS
  Phrases,       \* recovery phrases with a right checksum
  Seeds,         \* raw 32-byte seeds that are valid Orchard spending keys
  Accounts,      \* account indexes an app passes, as u32
  Messages       \* texts to sign

ASSUME SecretsAssumption == Accounts \subseteq 0..(2 * HARDENED - 1)

VARIABLES
  backup,        \* the secret the user wrote down, {} before there is one
  secret,        \* the secret the app passes to the libraries
  wallet,        \* history: the account the app takes the secret for
  shown,         \* history: the last address shown, as <<account, key>>
  signer,        \* the mobile Signer held open, {} if none
  room           \* history: the last chat room, as <<account, identity>>

vars == <<backup, secret, wallet, shown, signer, room>>

-----------------------------------------------------------------------------
(* The app.                                                                *)

Init ==
  /\ backup = {} /\ secret = Junk("empty") /\ wallet = 0
  /\ shown = {} /\ signer = {} /\ room = {}

Start(s, k) ==
  /\ backup = {}
  /\ backup' = {s}
  /\ secret' = s
  /\ wallet' = 0
  /\ shown' = {<<0, k>>}
  /\ UNCHANGED <<signer, room>>

(* A fresh phrase and the address of the key it resolves to.               *)
new_wallet_mnemonic(p) == Start(Phrase(p), ZipKey(p, 0))

(* Random seeds are drawn until one is a spending key.                     *)
new_wallet(s) == Start(Hex(RawKey(s)), RawKey(s))

(* A wallet made elsewhere: the app has a secret and no address yet.       *)
Import(s) ==
  /\ backup = {}
  /\ backup' = {s}
  /\ secret' = s
  /\ UNCHANGED <<wallet, shown, signer, room>>

(* The secret is typed again: across lines, in capitals, or wrongly.       *)
Retype ==
  /\ backup # {}
  /\ \/ \E p, m \in BOOLEAN : secret' = Typed(secret.form, secret.body, p, m)
     \/ \E f \in {"empty", "typo", "short hex"} : secret' = Junk(f)
  /\ UNCHANGED <<backup, wallet, shown, signer, room>>

(* The app keeps the key of one account in place of the phrase.            *)
StoreAccountKey(a) ==
  /\ backup # {}
  /\ \E h \in account_seed_hex(secret, a) : secret' = h
  /\ wallet' = a
  /\ UNCHANGED <<backup, shown, signer, room>>

Restore ==
  /\ \E s \in backup : secret' = s
  /\ wallet' = 0
  /\ UNCHANGED <<backup, shown, signer, room>>

Show(a, keys) ==
  /\ backup # {}
  /\ \E k \in keys : shown' = {<<a, k>>}
  /\ UNCHANGED <<backup, secret, wallet, signer, room>>

ShowAddress == Show(wallet, address_from_seed(secret))
ShowAccount(a) == Show(a, account_address(secret, a))
ShowOnPhone == \E s \in signer : Show(s.account, SignerAddress(s.secret))

(* A constructor that fails leaves the app with the signer it had.         *)
OpenSigner ==
  /\ backup # {}
  /\ \E n \in Networks : \E s \in from_secret(secret, n) :
       signer' = {[secret |-> s, account |-> wallet]}
  /\ UNCHANGED <<backup, secret, wallet, shown, room>>

DropSigner ==
  /\ signer # {}
  /\ signer' = {}
  /\ UNCHANGED <<backup, secret, wallet, shown, room>>

EnterRoom(a) ==
  /\ backup # {}
  /\ \E i \in chat_identity(secret, a) : room' = {<<a, i>>}
  /\ UNCHANGED <<backup, secret, wallet, shown, signer>>

(* The identity of the room is imported into the client as its nsec, or    *)
(* what is pasted is its npub, or was spoilt where it was kept.            *)
ImportIdentity ==
  /\ \E x \in room, v \in {"bech32", "bech32m"} :
     \E text \in {nsec(x[2]), npub(x[2])} :
     \E bytes \in {text.bytes, TooShort, NoScalar} :
     \E sk \in nsec_to_hex(Bech32(text.hrp, bytes, v)) :
       room' = {<<x[1], sk>>}
  /\ UNCHANGED <<backup, secret, wallet, shown, signer>>

Next ==
  \/ \E p \in Phrases : new_wallet_mnemonic(p) \/ Import(Phrase(p))
  \/ \E s \in Seeds : new_wallet(s)
  \/ \E s \in Seeds \cup BadSeeds : Import(Hex(RawKey(s)))
  \/ Retype \/ Restore
  \/ ShowAddress \/ ShowOnPhone \/ OpenSigner \/ DropSigner \/ ImportIdentity
  \/ \E a \in Accounts : StoreAccountKey(a) \/ ShowAccount(a) \/ EnterRoom(a)

Spec == Init /\ [][Next]_vars

-----------------------------------------------------------------------------
(* Properties.                                                             *)

(* The key of account a of a backup: its own where the backup is a key.    *)
KeyOf(s, a) == IF s.form = "phrase" THEN ZipKey(s.body, a) ELSE s.body

(* Every address the app shows belongs to the backup and to the account    *)
(* the user is told it belongs to, whichever library made it: whether the  *)
(* secret is the phrase retyped or one account's key in its place, and     *)
(* though an open signer is older than the secret.                         *)
SameWallet ==
  \A s \in backup : \A x \in shown : x[2] = KeyOf(s, x[1])

(* The phone and the web wallet take the same secrets and make the same    *)
(* address of each, on every network: "a phrase yields the same address    *)
(* here as it does there", and a key in white space is still a key on      *)
(* both.  Where the web has no address, the phone's constructor fails: a   *)
(* typo shows then, and not when a payment is due.                         *)
AddressOn(n, keys) == {address_string(p, k) : p \in prefix_from(n), k \in keys}

PhoneAndWebAgree ==
  \A n \in Networks :
    LET web == AddressOn(n, address_from_seed(secret))
    IN  {AddressOn(n, SignerAddress(s)) : s \in from_secret(secret, n)} = {web} \ {{}}

(* What the app signs now proves control of an address it showed before,   *)
(* on the web and on the phone, if and only if the address is of the       *)
(* account it signs for, of the network it signs on however the caller     *)
(* spells it, and the message is the one signed.                           *)
Proves(sig, s, a, network, message) ==
  \A x \in shown, p \in Prefixes, m \in Messages :
    verify(address_string(p, x[2]), m, sig)
      <=> x[2] = KeyOf(s, a) /\ p = Lowercase[network] /\ m = message

ProofsHold ==
  \A s \in backup, n \in Networks, m \in Messages :
    /\ \A g \in sign(secret, n, m) : Proves(g, s, wallet, n, m)
    /\ \A r \in signer : \A g \in sign_message(r.secret, n, m) :
         Proves(g, s, r.account, n, m)

(* The chat and the money read a secret alike, so it never means two       *)
(* different things: what one reads as a phrase the other reads as the     *)
(* same phrase, and neither reads what the other cannot.  A key that is no *)
(* spending key is read by both, and has a chat identity but no address.   *)
ChatAndMoneyAgree ==
  \A a \in Accounts :
    {IF i.nip06 THEN ZipKey(i.root, 0) ELSE i.root : i \in chat_identity(secret, a)}
      = resolve_secret(secret)

(* Whoever speaks in a room is of the backup: the secret key is derived    *)
(* for the account of the room from the phrase, from the key, or from the  *)
(* key of one account that the app had stored; never from what is public,  *)
(* and importing an identity does not change it.                           *)
RoomIsOfBackup ==
  \A s \in backup, x \in room :
    \E t \in {s} \cup {Hex(KeyOf(s, a)) : a \in Accounts} :
      x[2] \in chat_identity(t, x[1])

(* Rooms cannot be linked: a room entered after another, in a different    *)
(* account, has an unrelated identity, also when the secret was replaced   *)
(* or retyped in between.  Accounts a and a + 2^31 are excepted: the code  *)
(* makes one path of them, where the money signer refuses the second.      *)
RoomsDistinct ==
  [][ \A x \in room, y \in room' :
        x[1] % HARDENED # y[1] % HARDENED => x[2] # y[2] ]_vars
=============================================================================
