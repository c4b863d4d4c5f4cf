---------------------------- MODULE ColdStorage -----------------------------
(***************************************************************************)
(* A paper wallet from the printer to the chain.  The page of PaperWallet  *)
(* prints a paper; coins are sent to its address, typed or scanned; years  *)
(* later its seed, typed or scanned, opens the mobile Signer, and payments *)
(* are made as in Payment.  Nothing but the paper joins the two programs.  *)
(***************************************************************************)
EXTENDS PaperWallet, Payment

CONSTANT Funding \* the values of the coins sent to the paper's address

ASSUME FundingAssumption == Funding \in Seq(Nat)

VARIABLE stage   \* "page", then "paper", then "signer"

vars == <<stage, pageVars, payVars>>

Init == stage = "page" /\ PageInit /\ PayInit /\ coins = <<>>

OnPage ==
  /\ stage = "page"
  /\ Page
  /\ UNCHANGED <<stage, payVars>>

(* Coins arrive at an address read off the paper, and the tab is closed.   *)
Receive ==
  /\ stage = "page" /\ stage' = "paper"
  /\ \E p \in papers : \E k \in {p.text.address} \cup p.qr.address :
       coins' = [n \in DOMAIN Funding |-> [owner |-> k, value |-> Funding[n]]]
  /\ ready' = FALSE /\ text' = {} /\ qr' = Blank /\ unblurred' = {}
  /\ out' = FALSE /\ error' = FALSE
  /\ UNCHANGED <<papers, signer, intent, calls, released, mined>>

(* The seed is read off the paper into the signer; the paper goes back.    *)
Open ==
  /\ stage = "paper" /\ stage' = "signer"
  /\ \E p \in papers, n \in Networks : \E s \in {p.text.seed} \cup p.qr.seed :
       /\ from_secret(s, n) # {}
       /\ signer' = from_secret(s, n)
  /\ papers' = {}
  /\ UNCHANGED <<ready, text, qr, unblurred, out, error>>
  /\ UNCHANGED <<intent, calls, released, coins, mined>>

Spend ==
  /\ stage = "signer"
  /\ Pay
  /\ UNCHANGED <<stage, pageVars>>

Next == OnPage \/ Receive \/ Open \/ Spend

Spec == Init /\ [][Next]_vars

-----------------------------------------------------------------------------
(* What is sent to an address on a paper can be spent with the seed on it: *)
(* typed or scanned, it opens a signer of that very address, on each       *)
(* network there is.  Only the seed's QR code is excepted, when the page   *)
(* displayed an error as it was printed.                                   *)
FundsReachable ==
  \A p \in papers :
    \A s \in {p.text.seed} \cup (IF p.warned THEN {} ELSE p.qr.seed),
       k \in {p.text.address} \cup p.qr.address, n \in Networks :
      prefix_from(n) # {} =>
        UNION {SignerAddress(t) : t \in from_secret(s, n)} = {k}
=============================================================================
