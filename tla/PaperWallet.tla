---------------------------- MODULE PaperWallet -----------------------------
(***************************************************************************)
(* The paper wallet page (src/paper-wallet/template.html): it generates a  *)
(* wallet or restores one from a typed secret, shows its address, viewing  *)
(* key and seed as texts and as QR codes, and prints them.                 *)
(***************************************************************************)
EXTENDS Keys

CONSTANTS
  PageSeeds,     \* raw seeds the page's generator draws, all valid
  Typeable       \* the secrets a user types into the page

VARIABLES
  ready,         \* the WebAssembly module is loaded and the buttons enabled
  text,          \* the texts on the page: {} or the record of the three
  qr,            \* the QR codes: what each of them says, {} if it is blank
  unblurred,     \* {} while no seed is in clear, else the texts (history)
                 \* that were on the page when the user asked to see it
  out,           \* the wallet's part of the page is displayed
  error,         \* an error message is displayed
  papers         \* history: the last paper that left the printer

pageVars == <<ready, text, qr, unblurred, out, error, papers>>

Blank == [address |-> {}, view |-> {}, seed |-> {}]

PageInit ==
  /\ ready = FALSE /\ out = FALSE /\ error = FALSE
  /\ text = {} /\ qr = Blank /\ unblurred = {}
  /\ papers = {}

(* The module is instantiated, or that fails and the page stays disabled.  *)
boot ==
  /\ ~ready /\ ~error
  /\ ready' \in BOOLEAN
  /\ error' = ~ready'
  /\ UNCHANGED <<text, qr, unblurred, out, papers>>

(* A QR code holds some 2300 characters.  What is typed fits, but for a    *)
(* phrase with very much white space between its words.                    *)
FitsQR(s) == ~s.messy

fvk_hex(s) == address_from_seed(s)

Rejected ==
  /\ error' = TRUE
  /\ UNCHANGED <<ready, text, qr, unblurred, out, papers>>

Swallowed(seed) == \* mutant: an empty catch, a failure is not reported
  IF FitsQR(seed) THEN FALSE ELSE error

NotHidden(seed) == unblurred \* mutant: the seed is not hidden again

ErrorAfter(seed) == ~FitsQR(seed)

(* "Re-hide the seed each time a new wallet is generated."                 *)
Hidden(seed) == IF FitsQR(seed) THEN {} ELSE unblurred

(* The texts are replaced first, then the QR codes, the seed's last; the   *)
(* mask, the display and the error follow only if all of them fit.         *)
render(address, seed) ==
  \E view \in fvk_hex(seed) :
    /\ text' = {[address |-> address, view |-> view, seed |-> seed]}
    /\ qr' = [address |-> {address}, view |-> {view},
              seed |-> IF FitsQR(seed) THEN {seed} ELSE qr.seed]
    /\ unblurred' = Hidden(seed)
    /\ out' = (out \/ FitsQR(seed))
    /\ error' = ErrorAfter(seed)
    /\ UNCHANGED <<ready, papers>>

gen ==
  /\ ready
  /\ \E s \in PageSeeds : render(RawKey(s), Hex(RawKey(s)))

derive ==
  /\ ready
  /\ \E s \in Typeable :
       \/ \E k \in address_from_seed(s) : render(k, trim(s))
       \/ address_from_seed(s) = {} /\ Rejected

reveal ==
  /\ ready /\ out
  /\ unblurred' = text
  /\ UNCHANGED <<ready, text, qr, out, error, papers>>

(* What is displayed is printed, whatever the error message says: it stays *)
(* off the paper.  With nothing displayed the sheet has no wallet on it.   *)
print ==
  /\ ready
  /\ unblurred' = text
  /\ papers' = IF out THEN {[text |-> t, qr |-> qr, warned |-> error] : t \in text}
               ELSE papers
  /\ UNCHANGED <<ready, text, qr, out, error>>

Page == boot \/ gen \/ derive \/ reveal \/ print

PageSpec == PageInit /\ [][Page]_pageVars

-----------------------------------------------------------------------------
(* A paper is of one wallet: its texts always, and its QR codes unless the *)
(* page displayed an error when it was printed.  The seed's code is drawn  *)
(* last, and may be the one of an earlier wallet then.                     *)
PaperWhole ==
  \A p \in papers :
    /\ address_from_seed(p.text.seed) = {p.text.address}
    /\ fvk_hex(p.text.seed) = {p.text.view}
    /\ ~p.warned => p.qr = [address |-> {p.text.address},
                            view |-> {p.text.view}, seed |-> {p.text.seed}]

(* A seed in clear on the page is the one the user asked to see: putting   *)
(* another wallet there blurs it again, unless its QR code failed.         *)
RevealedOnRequest == unblurred # {} /\ ~error => unblurred = text
=============================================================================
