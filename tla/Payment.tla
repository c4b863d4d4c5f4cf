------------------------------ MODULE Payment -------------------------------
(***************************************************************************)
(* The non-custodial payment: the user approves a recipient, an amount and *)
(* a ceiling for the fee; a daemon that nobody trusts prepares a bundle;   *)
(* verify_and_sign_payment() checks it on the device and signs; the bundle *)
(* is submitted, or not, or later, or twice, and the chain decides.        *)
(*                                                                         *)
(* An answer of the daemon is any at all, at any moment: a wrong, a stale  *)
(* and a repeated one are among them.  A signature is by one key, over one *)
(* action of one bundle, for one chain.  The signer SDK and the chain are  *)
(* external: what the code relies on in them is all that is modelled.      *)
(***************************************************************************)
EXTENDS Keys, FiniteSets, Sequences

CONSTANTS
  Payees,        \* other people: the origins of their keys
  Amounts,       \* amounts a user approves, in sompi
  MaxFees,       \* fee ceilings a user approves
  Values,        \* values an output of a bundle may have
  MaxCalls       \* bound: calls that returned signatures

ASSUME PaymentAssumption ==
  /\ Amounts \subseteq Nat \ {0} /\ MaxFees \subseteq Nat /\ Values \subseteq Nat
  /\ MaxCalls \in Nat

VARIABLES
  signer,        \* the secret in the Signer the app holds open, {} if none
  intent,        \* what the user approved last, {} before
  calls,         \* history: the intents signed for, each with its bundle
  released,      \* the signatures that left the device
  coins,         \* the chain's shielded coins, each an owner and a value
  mined          \* the bundles in the chain

payVars == <<signer, intent, calls, released, coins, mined>>

-----------------------------------------------------------------------------
(* Bundles: two actions, each spends a coin (0: none) and makes an output. *)

Actions == {1, 2}

SpendValue(n) == IF n = 0 THEN 0 ELSE coins[n].value

(* The public value balance: what is spent and does not come out, a signed *)
(* 64-bit number.                                                          *)
value_balance(b) ==
  SpendValue(b[1].spend) + SpendValue(b[2].spend) - b[1].value - b[2].value

Spends(b) == {b[i].spend : i \in Actions} \ {0}

Spent == UNION {Spends(b) : b \in mined}

(* The chain carries a bundle that spends coins, each once and with its    *)
(* owner's signature for this chain, and makes no value.                   *)
Accepted(b, sigs) ==
  /\ Spends(b) # {} /\ Spends(b) \subseteq DOMAIN coins \ Spent
  /\ b[1].spend # b[2].spend
  /\ value_balance(b) >= 0
  /\ \A i \in Actions : b[i].spend # 0 =>
       [by |-> coins[b[i].spend].owner, bundle |-> b, action |-> i,
        domain |-> "mainnet"] \in sigs

-----------------------------------------------------------------------------
(* The SDK: exactly one output pays the intent, any other is change to the *)
(* wallet, the fee is positive and within the ceiling, and what the caller *)
(* claims of the bundle is what it pays.  A lie in the disclosure fails.   *)
PaysIntent(b, k, claimed, wanted) ==
  /\ wanted.recipient = claimed.recipient /\ wanted.amount = claimed.amount
  /\ claimed.fee = value_balance(b) /\ claimed.fee \in 1..wanted.max_fee
  /\ \E i \in Actions :
       /\ b[i].to = wanted.recipient /\ b[i].value = wanted.amount
       /\ \A j \in Actions \ {i} : b[j].value # 0 => b[j].to = k

verify_and_sign(k, domain, prepared, claimed, wanted) ==
  IF /\ prepared.disclosed
     /\ PaysIntent(prepared.bundle, k, claimed, wanted)
  THEN {{[by |-> k, bundle |-> prepared.bundle, action |-> i, domain |-> domain] :
           i \in prepared.spend_auth}}
  ELSE {}

-----------------------------------------------------------------------------
(* The device.  An answer whose parts cannot be decoded is none: {}.       *)

GenesisForAll(network) == {"mainnet"} \* mutant: no look at the network

(* The only network whose genesis is pinned, spelled in lower case.        *)
Genesis(network) == {network} \cap {"mainnet"}

(* The recipient is decoded from what the user typed; only its key counts. *)
Recipient(to_address) == IF to_address.shielded THEN {to_address.raw} ELSE {}

AmountDisclosed(c, b) == b[1].value \* mutant: as the daemon discloses it
MaxFeeOfBundle(c, b) == value_balance(b) \* mutant: as the daemon computes it
FeeIsCeiling(c, b) == c.max_fee \* mutant: the fee claimed is the ceiling

Amount(c, b) == c.amount
MaxFee(c, b) == c.max_fee

(* u64::try_from(value_balance), or 0.                                     *)
BundleFee(c, b) == IF value_balance(b) >= 0 THEN value_balance(b) ELSE 0

(* What is said of the bundle, and what it is held against.                *)
Claimed(c, b, to) ==
  [recipient |-> to, amount |-> Amount(c, b), fee |-> BundleFee(c, b)]
Wanted(c, b, to) ==
  [recipient |-> to, amount |-> Amount(c, b), max_fee |-> MaxFee(c, b)]

(* What a call returns: a set of signatures, or nothing.                   *)
verify_and_sign_payment(s, c, answer) ==
  UNION {verify_and_sign(k, genesis, answer, Claimed(c, answer.bundle, to),
                         Wanted(c, answer.bundle, to)) :
         k \in SignerAddress(s), genesis \in Genesis(c.network),
         to \in Recipient(c.to_address)}

-----------------------------------------------------------------------------
PayInit ==
  /\ signer = {} /\ intent = {} /\ calls = {} /\ released = {}
  /\ mined = {}

(* What the user enters, in whatever way the app spells the network.       *)
Intents ==
  [network : Networks, amount : Amounts, max_fee : MaxFees,
   to_address : [raw : {RawKey(p) : p \in Payees}, shielded : BOOLEAN]]

(* What the daemon can make of the coins of the wallet it watches: which   *)
(* of them it spends, to whom the outputs go, and of which values.         *)
Unspent == {n \in DOMAIN coins \ Spent :
              coins[n].value > 0 /\ \E s \in signer : coins[n].owner \in SignerAddress(s)}

Bundles ==
  LET Owners  == {RawKey(p) : p \in Payees} \cup {coins[n].owner : n \in Unspent}
      Outputs == [spend : Unspent \cup {0}, to : Owners, value : Values]
  IN  {b \in Outputs \X Outputs : b[1].spend # 0}

Approve(c) ==
  /\ signer # {} /\ Cardinality(calls) < MaxCalls
  /\ intent' = {c}
  /\ UNCHANGED <<signer, calls, released, coins, mined>>

(* The app passes on the answer it has just now, with what was approved    *)
(* last.  An error leaves everything as it was.                            *)
Authorize(b) ==
  /\ Cardinality(calls) < MaxCalls
  /\ \E s \in signer, c \in intent, honest \in BOOLEAN :
     \E requests \in SUBSET Actions \ {{}} :
     \E sigs \in verify_and_sign_payment(s, c,
                   [bundle |-> b, disclosed |-> honest, spend_auth |-> requests]) :
       /\ released' = released \cup sigs
       /\ calls' = calls \cup {[intent |-> c, bundle |-> b]}
  /\ UNCHANGED <<signer, intent, coins, mined>>

(* The daemon submits a bundle with the signatures it has, at any time,    *)
(* and the chain takes it.  Every output is a coin of its own.             *)
Mine(b) ==
  /\ Accepted(b, released)
  /\ mined' = mined \cup {b}
  /\ coins' = coins \o << [owner |-> b[1].to, value |-> b[1].value],
                         [owner |-> b[2].to, value |-> b[2].value] >>
  /\ UNCHANGED <<signer, intent, calls, released>>

Pay ==
  \/ \E c \in Intents : Approve(c)
  \/ \E b \in Bundles : Authorize(b)
  \/ \E b \in {s.bundle : s \in released} : Mine(b)

-----------------------------------------------------------------------------
(* What a bundle in the chain does is what the user approved for it: it    *)
(* pays the recipient and the amount that were entered, all the rest comes *)
(* back but for a fee below the ceiling entered with them.  So it is for   *)
(* every answer of the daemon, also one that came after the user had       *)
(* approved something else.                                                *)
Fulfils(b, c) ==
  /\ c.network = "mainnet"
  /\ value_balance(b) \in 1..c.max_fee
  /\ \E i \in Actions :
       /\ b[i].to = c.to_address.raw /\ b[i].value = c.amount
       /\ \A j \in Actions \ {i}, n \in Spends(b) :
            b[j].value # 0 => b[j].to = coins[n].owner

PaidAsApproved ==
  \A b \in mined : \E d \in calls : d.bundle = b /\ Fulfils(b, d.intent)

(* A signature is for the chain the user approved the payment on, and no   *)
(* other: what is approved on a test network cannot be mined on mainnet.   *)
NoOtherChain ==
  \A s \in released : \E d \in calls :
    d.bundle = s.bundle /\ s.domain = Lowercase[d.intent.network]

(* An honest answer to what the user approved on mainnet is signed, and    *)
(* the chain takes the bundle with these signatures: no check on the way   *)
(* from the secret to the fee refuses what is right.                       *)
HonestAccepted ==
  \A s \in signer, c \in intent, b \in Bundles :
    /\ Fulfils(b, c) /\ c.to_address.shielded /\ b[1].spend # b[2].spend
    => \E sigs \in verify_and_sign_payment(s, c,
                     [bundle |-> b, disclosed |-> TRUE, spend_auth |-> Actions]) :
         Accepted(b, sigs)
=============================================================================
