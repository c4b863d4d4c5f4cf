-------------------------- MODULE ColdStorageProofs --------------------------
(***************************************************************************)
(* What the chain does is what the user approved, whatever the daemon      *)
(* answers, for any amounts, fees, coins and number of payments.           *)
(***************************************************************************)
EXTENDS ColdStorage, KeysProofs

-----------------------------------------------------------------------------
(* The page.                                                               *)

(* A text on the page is of one wallet, and the QR codes are of the same;  *)
(* the seed's is, unless an error is displayed.                            *)
OfOneWallet(t, q, warned) ==
  /\ address_from_seed(t.seed) = {t.address} /\ t.view = t.address
  /\ q.address = {t.address} /\ q.view = {t.view}
  /\ warned \/ q.seed = {t.seed}
  /\ q = [address |-> q.address, view |-> q.view, seed |-> q.seed]

PageInv ==
  /\ \A t \in text : OfOneWallet(t, qr, error)
  /\ \A p \in papers : OfOneWallet(p.text, p.qr, p.warned)
  /\ RevealedOnRequest

LEMMA PageInvImplies == PageInv => PaperWhole /\ FundsReachable /\ RevealedOnRequest
<1> SUFFICES ASSUME PageInv
             PROVE  PaperWhole /\ FundsReachable /\ RevealedOnRequest
  OBVIOUS
<1>1. PaperWhole
  BY DEF PaperWhole, PageInv, OfOneWallet, fvk_hex
<1>2. FundsReachable
  <2> SUFFICES ASSUME NEW p \in papers,
                      NEW s \in {p.text.seed} \cup (IF p.warned THEN {} ELSE p.qr.seed),
                      NEW k \in {p.text.address} \cup p.qr.address,
                      NEW n \in Networks, prefix_from(n) # {}
               PROVE  UNION {SignerAddress(t) : t \in from_secret(s, n)} = {k}
    BY DEF FundsReachable
  <2>1. OfOneWallet(p.text, p.qr, p.warned)
    BY DEF PageInv
  <2>2. s = p.text.seed /\ k = p.text.address
    BY <2>1 DEF OfOneWallet
  <2>3. address_from_seed(s) = {k}
    BY <2>1, <2>2 DEF OfOneWallet
  <2> QED
    BY <2>3, SignerOpens
<1> QED
  BY <1>1, <1>2 DEF PageInv

(* Whatever is rendered is of one wallet if the address is the seed's.     *)
LEMMA RenderStep ==
  ASSUME PageInv, NEW address, NEW seed, address \in address_from_seed(seed),
         render(address, seed)
  PROVE  PageInv'
<1>1. PICK view \in fvk_hex(seed) :
        /\ text' = {[address |-> address, view |-> view, seed |-> seed]}
        /\ qr' = [address |-> {address}, view |-> {view},
                  seed |-> IF FitsQR(seed) THEN {seed} ELSE qr.seed]
  BY DEF render
<1>2. /\ unblurred' = Hidden(seed)
      /\ error' = ErrorAfter(seed)
      /\ papers' = papers
  BY DEF render
<1>3. address_from_seed(seed) = {address} /\ view = address
  BY OneKey DEF fvk_hex
<1>4. \A t \in text' : OfOneWallet(t, qr', error')
  <2> DEFINE t == [address |-> address, view |-> view, seed |-> seed]
  <2>1. t.seed = seed /\ t.address = address /\ t.view = view /\ text' = {t}
    BY <1>1
  <2>2. /\ qr'.address = {address} /\ qr'.view = {view}
        /\ FitsQR(seed) => qr'.seed = {seed}
        /\ qr' = [address |-> qr'.address, view |-> qr'.view, seed |-> qr'.seed]
    BY <1>1
  <2>3. error' \/ FitsQR(seed)
    BY <1>2 DEF ErrorAfter
  <2> QED
    BY <1>3, <2>1, <2>2, <2>3 DEF OfOneWallet
<1>5. RevealedOnRequest'
  BY <1>2 DEF RevealedOnRequest, Hidden, ErrorAfter
<1> QED
  BY <1>2, <1>4, <1>5 DEF PageInv

LEMMA PageStep ==
  ASSUME PageInv, Page
  PROVE  PageInv'
<1>1. CASE boot
  <2>1. ~error /\ UNCHANGED <<text, qr, unblurred, papers>>
    BY <1>1 DEF boot
  <2> QED
    BY <2>1 DEF PageInv, RevealedOnRequest, OfOneWallet
<1>2. CASE gen
  <2>1. PICK s \in PageSeeds : render(RawKey(s), Hex(RawKey(s)))
    BY <1>2 DEF gen
  <2>2. address_from_seed(Hex(RawKey(s))) \subseteq {RawKey(s)}
    BY DEF address_from_seed, resolve_secret, IsHex64, Hex, Typed, trim
  <2>3. address_from_seed(Hex(RawKey(s))) # {}
    BY <2>1 DEF render, fvk_hex
  <2> QED
    BY <2>1, <2>2, <2>3, RenderStep
<1>3. CASE derive
  <2>1. PICK s \in Typeable :
          \/ \E k \in address_from_seed(s) : render(k, trim(s))
          \/ Rejected
    BY <1>3 DEF derive
  <2>2. ASSUME NEW k \in address_from_seed(s), render(k, trim(s))
        PROVE  PageInv'
    BY <2>2, TrimResolves, RenderStep
  <2>3. CASE Rejected
    BY <2>3 DEF Rejected, PageInv, RevealedOnRequest, OfOneWallet
  <2> QED
    BY <2>1, <2>2, <2>3
<1>4. CASE reveal
  BY <1>4 DEF reveal, PageInv, RevealedOnRequest
<1>5. CASE print
  <2>1. /\ unblurred' = text
        /\ papers' = {[text |-> t, qr |-> qr, warned |-> error] : t \in text}
           \/ papers' = papers
        /\ UNCHANGED <<text, qr, error>>
    BY <1>5 DEF print
  <2> QED
    BY <2>1 DEF PageInv, RevealedOnRequest
<1> QED
  BY <1>1, <1>2, <1>3, <1>4, <1>5 DEF Page

LEMMA PageInvInit == Init => PageInv
BY DEF Init, PageInit, PageInv, RevealedOnRequest

LEMMA PageInvStep == PageInv /\ [Next]_vars => PageInv'
<1> SUFFICES ASSUME PageInv, [Next]_vars
             PROVE  PageInv'
  OBVIOUS
<1>1. ASSUME UNCHANGED <<text, qr, unblurred, error>>, papers' \subseteq papers
      PROVE  PageInv'
  BY <1>1 DEF PageInv, RevealedOnRequest
<1>2. CASE OnPage
  BY <1>2, PageStep DEF OnPage
<1>3. CASE Receive
  BY <1>3 DEF Receive, PageInv, RevealedOnRequest
<1>4. CASE Open
  BY <1>1, <1>4 DEF Open
<1>5. CASE Spend
  BY <1>1, <1>5 DEF Spend, pageVars
<1>6. CASE UNCHANGED vars
  BY <1>1, <1>6 DEF vars, pageVars
<1> QED
  BY <1>2, <1>3, <1>4, <1>5, <1>6 DEF Next

(* A paper is of one wallet, for any seeds the page draws and whatever is  *)
(* typed into it.                                                          *)
THEOREM PaperIsWhole == Spec => []PaperWhole
<1> QED
  BY PageInvInit, PageInvStep, PageInvImplies, PTL DEF Spec

(* What is sent to a paper's address can be spent with the paper's seed,   *)
(* for any seeds the page draws and whatever is typed into it.             *)
THEOREM PaperOpensItsFunds == Spec => []FundsReachable
<1> QED
  BY PageInvInit, PageInvStep, PageInvImplies, PTL DEF Spec

(* No seed is in clear on the page that the user did not ask to see.       *)
THEOREM OnlyRevealedIsClear == Spec => []RevealedOnRequest
<1> QED
  BY PageInvInit, PageInvStep, PageInvImplies, PTL DEF Spec

-----------------------------------------------------------------------------
(* Payments.                                                               *)

(* Before the signer is opened nothing is signed; every bundle signed for  *)
(* spends coins that exist and fulfils its intent; every signature is over *)
(* such a bundle, and so is every bundle in the chain.                     *)
Unopened ==
  stage # "signer" => signer = {} /\ calls = {} /\ released = {} /\ mined = {}

OneSecret == \A s, t \in signer : s = t

CoinsTyped == \E S : coins \in Seq(S)

CallsFulfilled ==
  \A d \in calls :
    /\ \A i \in Actions : d.bundle[i].spend \in DOMAIN coins \cup {0}
    /\ Fulfils(d.bundle, d.intent)

SignedForCall ==
  \A s \in released :
    s.domain = "mainnet" /\ \E d \in calls : d.bundle = s.bundle

MinedForCall == \A b \in mined : \E d \in calls : d.bundle = b

ChainInv ==
  /\ Unopened /\ OneSecret /\ CoinsTyped
  /\ CallsFulfilled /\ SignedForCall /\ MinedForCall

LEMMA ChainInvImplies == ChainInv => PaidAsApproved /\ NoOtherChain
<1> SUFFICES ASSUME ChainInv
             PROVE  PaidAsApproved /\ NoOtherChain
  OBVIOUS
<1>1. PaidAsApproved
  BY DEF PaidAsApproved, ChainInv, MinedForCall, CallsFulfilled
<1>2. ASSUME NEW d \in calls
      PROVE  Lowercase[d.intent.network] = "mainnet"
  <2>1. d.intent.network = "mainnet"
    BY DEF ChainInv, CallsFulfilled, Fulfils
  <2> QED
    BY <2>1 DEF Lowercase
<1>3. NoOtherChain
  BY <1>2 DEF NoOtherChain, ChainInv, SignedForCall
<1> QED
  BY <1>1, <1>3

(* What a bundle does, does not change when coins are added to the chain.  *)
LEMMA FulfilsKept ==
  ASSUME NEW b, NEW c,
         \A i \in Actions : b[i].spend \in DOMAIN coins \cup {0},
         \A n \in DOMAIN coins : n \in DOMAIN coins' /\ coins'[n] = coins[n],
         Fulfils(b, c)
  PROVE  Fulfils(b, c)'
<1>1. \A n \in DOMAIN coins \cup {0} : SpendValue(n)' = SpendValue(n)
  BY DEF SpendValue
<1>2. value_balance(b)' = value_balance(b)
  BY <1>1 DEF value_balance, Actions
<1>3. Spends(b) \subseteq DOMAIN coins
  BY DEF Spends
<1> QED
  BY <1>2, <1>3 DEF Fulfils

(* A call that returns signatures returns them over the bundle it was      *)
(* given, for mainnet, and the bundle fulfils what was approved.           *)
LEMMA Checked ==
  ASSUME OneSecret, NEW s \in signer, NEW c, NEW b \in Bundles,
         NEW honest, NEW requests,
         NEW sigs \in verify_and_sign_payment(s, c,
           [bundle |-> b, disclosed |-> honest, spend_auth |-> requests])
  PROVE  /\ Fulfils(b, c)
         /\ \A g \in sigs : g.bundle = b /\ g.domain = "mainnet"
<1> DEFINE answer == [bundle |-> b, disclosed |-> honest, spend_auth |-> requests]
<1>1. PICK k \in SignerAddress(s), genesis \in Genesis(c.network),
           to \in Recipient(c.to_address) :
             sigs \in verify_and_sign(k, genesis, answer, Claimed(c, answer.bundle, to),
                                     Wanted(c, answer.bundle, to))
  <2> HIDE DEF answer
  <2> QED
    BY DEF verify_and_sign_payment, answer
<1>2. answer.bundle = b
  OBVIOUS
<1>3. PaysIntent(b, k, Claimed(c, b, to), Wanted(c, b, to))
  BY <1>1, <1>2 DEF verify_and_sign
<1>4. sigs = {[by |-> k, bundle |-> b, action |-> i, domain |-> genesis] : i \in requests}
  BY <1>1, <1>2 DEF verify_and_sign
<1>5. genesis = "mainnet" /\ c.network = "mainnet"
  BY DEF Genesis
<1>6. to = c.to_address.raw
  BY DEF Recipient
<1>7. \A n \in Spends(b) : coins[n].owner = k
  <2>1. Spends(b) \subseteq Unspent
    BY DEF Bundles, Spends, Actions
  <2>2. \A n \in Unspent : coins[n].owner \in SignerAddress(s)
    BY DEF OneSecret, Unspent
  <2> QED
    BY <2>1, <2>2, OneSigner
<1>8. value_balance(b) \in 1..c.max_fee
  BY <1>3 DEF PaysIntent, Claimed, Wanted, MaxFee
<1>9. \E i \in Actions :
        /\ b[i].to = c.to_address.raw /\ b[i].value = c.amount
        /\ \A j \in Actions \ {i} : b[j].value # 0 => b[j].to = k
  BY <1>3, <1>6 DEF PaysIntent, Wanted, Amount
<1>10. Fulfils(b, c)
  BY <1>5, <1>7, <1>8, <1>9 DEF Fulfils
<1> QED
  BY <1>4, <1>5, <1>10

(* The device signs an honest answer, and the chain takes the bundle.      *)
LEMMA HonestIsSigned == OneSecret => HonestAccepted
<1> SUFFICES ASSUME OneSecret, NEW s \in signer, NEW c \in intent, NEW b \in Bundles,
                    Fulfils(b, c), c.to_address.shielded, b[1].spend # b[2].spend
             PROVE  \E sigs \in verify_and_sign_payment(s, c,
                      [bundle |-> b, disclosed |-> TRUE, spend_auth |-> Actions]) :
                        Accepted(b, sigs)
  BY DEF HonestAccepted
<1> DEFINE answer == [bundle |-> b, disclosed |-> TRUE, spend_auth |-> Actions]
           first == b[1].spend
<1>1. first \in Spends(b) /\ Spends(b) \subseteq Unspent
  BY DEF Bundles, Spends, Actions
<1>2. \A n \in Unspent : coins[n].owner \in SignerAddress(s)
  BY DEF OneSecret, Unspent
<1> DEFINE k == coins[first].owner
<1>3. k \in SignerAddress(s) /\ \A n \in Spends(b) : coins[n].owner = k
  BY <1>1, <1>2, OneSigner
<1> DEFINE to == c.to_address.raw
           sigs == {[by |-> k, bundle |-> b, action |-> i, domain |-> "mainnet"] : i \in Actions}
<1>4. "mainnet" \in Genesis(c.network) /\ to \in Recipient(c.to_address)
  BY DEF Fulfils, Genesis, Recipient
<1>5. value_balance(b) \in 1..c.max_fee
  BY DEF Fulfils
<1>6. \E i \in Actions :
        /\ b[i].to = to /\ b[i].value = c.amount
        /\ \A j \in Actions \ {i} : b[j].value # 0 => b[j].to = k
  BY <1>1 DEF Fulfils
<1>7. PaysIntent(b, k, Claimed(c, b, to), Wanted(c, b, to))
  <2> DEFINE vb == value_balance(b)
  <2>1. BundleFee(c, b) = vb
    BY <1>5 DEF BundleFee
  <2>2. /\ Claimed(c, b, to).recipient = to /\ Wanted(c, b, to).recipient = to
        /\ Claimed(c, b, to).amount = c.amount /\ Wanted(c, b, to).amount = c.amount
        /\ Claimed(c, b, to).fee = vb /\ Wanted(c, b, to).max_fee = c.max_fee
    BY <2>1 DEF Claimed, Wanted, Amount, MaxFee
  <2> QED
    BY <1>5, <1>6, <2>2 DEF PaysIntent
<1>8. sigs \in verify_and_sign(k, "mainnet", answer, Claimed(c, b, to), Wanted(c, b, to))
  BY <1>7 DEF verify_and_sign
<1>9. sigs \in verify_and_sign_payment(s, c, answer)
  <2>1. answer.bundle = b
    OBVIOUS
  <2> HIDE DEF answer, sigs, k, to
  <2> QED
    BY <1>3, <1>4, <1>8, <2>1 DEF verify_and_sign_payment
<1>10. Accepted(b, sigs)
  <2>1. Spends(b) # {} /\ Spends(b) \subseteq DOMAIN coins \ Spent
    BY <1>1 DEF Unspent
  <2>2. ASSUME NEW i \in Actions, b[i].spend # 0
        PROVE  [by |-> coins[b[i].spend].owner, bundle |-> b, action |-> i,
                domain |-> "mainnet"] \in sigs
    BY <1>3, <2>2 DEF Spends
  <2>3. value_balance(b) >= 0
    BY <1>5
  <2> QED
    BY <2>1, <2>2, <2>3 DEF Accepted
<1> QED
  BY <1>9, <1>10

LEMMA ChainInit == Init => ChainInv
<1>1. <<>> \in Seq({})
  OBVIOUS
<1> QED
  BY <1>1 DEF Init, PayInit, ChainInv, Unopened, OneSecret, CoinsTyped,
     CallsFulfilled, SignedForCall, MinedForCall

LEMMA AuthorizeStep ==
  ASSUME ChainInv, stage = "signer", stage' = stage,
         NEW b \in Bundles, Authorize(b)
  PROVE  ChainInv'
<1>1. PICK s \in signer, c \in intent, honest \in BOOLEAN,
           requests \in SUBSET Actions \ {{}} :
        \E sigs \in verify_and_sign_payment(s, c,
             [bundle |-> b, disclosed |-> honest, spend_auth |-> requests]) :
          /\ released' = released \cup sigs
          /\ calls' = calls \cup {[intent |-> c, bundle |-> b]}
  BY DEF Authorize
<1>2. PICK sigs \in verify_and_sign_payment(s, c,
             [bundle |-> b, disclosed |-> honest, spend_auth |-> requests]) :
          /\ released' = released \cup sigs
          /\ calls' = calls \cup {[intent |-> c, bundle |-> b]}
  BY <1>1
<1>3. UNCHANGED <<signer, intent, coins, mined>>
  BY DEF Authorize
<1>4. Fulfils(b, c) /\ \A g \in sigs : g.bundle = b /\ g.domain = "mainnet"
  BY <1>2, Checked DEF ChainInv
<1>5. \A i \in Actions : b[i].spend \in DOMAIN coins \cup {0}
  BY DEF Bundles, Unspent, Actions
<1>6. \A x, y : Fulfils(x, y)' <=> Fulfils(x, y)
  BY <1>3 DEF Fulfils, value_balance, SpendValue
<1>7. CallsFulfilled'
  BY <1>2, <1>3, <1>4, <1>5, <1>6 DEF ChainInv, CallsFulfilled
<1>8. SignedForCall'
  BY <1>2, <1>4 DEF ChainInv, SignedForCall
<1>9. MinedForCall'
  BY <1>2, <1>3 DEF ChainInv, MinedForCall
<1> QED
  BY <1>3, <1>7, <1>8, <1>9 DEF ChainInv, Unopened, OneSecret, CoinsTyped

LEMMA MineStep ==
  ASSUME ChainInv, stage = "signer", stage' = stage, NEW b, Mine(b)
  PROVE  ChainInv'
<1>1. /\ Accepted(b, released)
      /\ mined' = mined \cup {b}
      /\ coins' = coins \o << [owner |-> b[1].to, value |-> b[1].value],
                              [owner |-> b[2].to, value |-> b[2].value] >>
      /\ UNCHANGED <<signer, intent, calls, released>>
  BY DEF Mine
<1>2. PICK S : coins \in Seq(S)
  BY DEF ChainInv, CoinsTyped
<1> DEFINE o1 == [owner |-> b[1].to, value |-> b[1].value]
           o2 == [owner |-> b[2].to, value |-> b[2].value]
           T == S \cup {o1, o2}
<1> HIDE DEF o1, o2
<1>3. coins \in Seq(T) /\ <<o1, o2>> \in Seq(T)
  BY <1>2
<1>4. coins' = coins \o <<o1, o2>>
  BY <1>1 DEF o1, o2
<1>5. coins' \in Seq(T)
  BY <1>3, <1>4
<1>6. \A n \in DOMAIN coins : n \in DOMAIN coins' /\ coins'[n] = coins[n]
  BY <1>3, <1>4
<1>7. CallsFulfilled'
  <2> SUFFICES ASSUME NEW d \in calls
               PROVE  /\ \A i \in Actions : d.bundle[i].spend \in DOMAIN coins' \cup {0}
                      /\ Fulfils(d.bundle, d.intent)'
    BY <1>1 DEF CallsFulfilled
  <2>1. \A i \in Actions : d.bundle[i].spend \in DOMAIN coins \cup {0}
    BY DEF ChainInv, CallsFulfilled
  <2>2. Fulfils(d.bundle, d.intent)
    BY DEF ChainInv, CallsFulfilled
  <2>3. Fulfils(d.bundle, d.intent)'
    BY <2>1, <2>2, <1>6, FulfilsKept
  <2> QED
    BY <2>1, <2>3, <1>6
<1>8. \E d \in calls : d.bundle = b
  <2>1. PICK i \in Actions : b[i].spend # 0
    BY <1>1 DEF Accepted, Spends
  <2> DEFINE g == [by |-> coins[b[i].spend].owner, bundle |-> b, action |-> i,
                   domain |-> "mainnet"]
  <2>2. g \in released /\ g.bundle = b
    BY <1>1, <2>1 DEF Accepted
  <2> QED
    BY <2>2 DEF ChainInv, SignedForCall
<1>9. MinedForCall' /\ SignedForCall'
  BY <1>1, <1>8 DEF ChainInv, MinedForCall, SignedForCall
<1>10. CoinsTyped'
  BY <1>5 DEF CoinsTyped
<1> QED
  BY <1>1, <1>7, <1>9, <1>10 DEF ChainInv, Unopened, OneSecret

LEMMA ChainStep == ChainInv /\ [Next]_vars => ChainInv'
<1> SUFFICES ASSUME ChainInv, [Next]_vars
             PROVE  ChainInv'
  OBVIOUS
<1>1. ASSUME UNCHANGED payVars, stage' = stage
      PROVE  ChainInv'
  BY <1>1 DEF payVars, ChainInv, Unopened, OneSecret, CoinsTyped, CallsFulfilled,
     SignedForCall, MinedForCall, Fulfils, value_balance, SpendValue
<1>2. CASE OnPage
  BY <1>1, <1>2 DEF OnPage
<1>3. CASE Receive
  <2>1. stage = "page" /\ stage' = "paper" /\ UNCHANGED <<signer, intent, calls, released, mined>>
    BY <1>3 DEF Receive
  <2>2. PICK k : coins' = [n \in DOMAIN Funding |-> [owner |-> k, value |-> Funding[n]]]
    BY <1>3 DEF Receive
  <2> DEFINE S == {[owner |-> k, value |-> Funding[n]] : n \in DOMAIN Funding}
  <2>3. coins' \in Seq(S)
    BY <2>2, FundingAssumption
  <2>4. CoinsTyped'
    BY <2>3 DEF CoinsTyped
  <2> QED
    BY <2>1, <2>4 DEF ChainInv, Unopened, OneSecret, CallsFulfilled, SignedForCall, MinedForCall
<1>4. CASE Open
  <2>1. stage = "paper" /\ stage' = "signer" /\ UNCHANGED <<intent, calls, released, coins, mined>>
    BY <1>4 DEF Open
  <2>2. PICK s, n : signer' = from_secret(s, n)
    BY <1>4 DEF Open
  <2>3. OneSecret'
    BY <2>2 DEF OneSecret, from_secret
  <2> QED
    BY <2>1, <2>3 DEF ChainInv, Unopened, CoinsTyped, CallsFulfilled, SignedForCall, MinedForCall
<1>5. CASE Spend
  <2>1. stage = "signer" /\ stage' = stage /\ Pay
    BY <1>5 DEF Spend
  <2>2. ASSUME NEW c \in Intents, Approve(c)
        PROVE  ChainInv'
    BY <2>1, <2>2 DEF Approve, ChainInv, Unopened, OneSecret, CoinsTyped, CallsFulfilled,
       SignedForCall, MinedForCall, Fulfils, value_balance, SpendValue
  <2> QED
    BY <2>1, <2>2, AuthorizeStep, MineStep DEF Pay
<1>6. CASE UNCHANGED vars
  BY <1>1, <1>6 DEF vars
<1> QED
  BY <1>2, <1>3, <1>4, <1>5, <1>6 DEF Next

(* Whatever the daemon answers, and whenever: a bundle in the chain pays   *)
(* what was approved for it and nothing else, for any amounts, fees, coins *)
(* and number of payments.                                                 *)
THEOREM OnlyApprovedIsPaid == Spec => []PaidAsApproved
<1> QED
  BY ChainInit, ChainStep, ChainInvImplies, PTL DEF Spec

(* Nothing that is right is refused: the chain takes the bundle of an      *)
(* honest answer with the signatures the device returns for it.            *)
THEOREM HonestIsPaid == Spec => []HonestAccepted
<1>1. ChainInv => HonestAccepted
  BY HonestIsSigned DEF ChainInv
<1> QED
  BY <1>1, ChainInit, ChainStep, PTL DEF Spec

(* No signature leaves the device but for the chain it was approved for.   *)
THEOREM OneChain == Spec => []NoOtherChain
<1> QED
  BY ChainInit, ChainStep, ChainInvImplies, PTL DEF Spec
=============================================================================
