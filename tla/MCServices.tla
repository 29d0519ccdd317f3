----------------------------- MODULE MCServices -----------------------------
(***************************************************************************)
(* Seven services that share no state, each on a small instance of its     *)
(* own, and the calls of the billing arithmetic.  One of the eight runs in *)
(* a behaviour; the others stay at rest, so that the states explored are   *)
(* the sum and not the product.                                            *)
(***************************************************************************)
EXTENDS MCBillingLaws, SemesterBilling, Accounts, Teaching, FeePlans, Transcripts,
        GatewayTokens, IdCardCharges, TLC

VARIABLE focus     \* what runs

servicesVars == <<focus, vars, semesterBillingVars, accountsVars, teachingVars, feePlansVars,
                  transcriptsVars, gatewayTokensVars, idCardVars>>

\* The schedule while another service runs.
NothingBilled == \A i \in Numbers : schedule[i].amount = 0

\* The policies and the student of the ID card, while another service runs.
NothingPriced == ~applied /\ rates = CHOOSE tariff \in CardRates : TRUE

ServicesInit ==
  /\ focus \in {"arithmetic", "billing", "accounts", "teaching", "plans", "transcripts",
                "tokens", "cards"}
  /\ Init /\ (focus # "arithmetic" => NothingBilled)
  /\ SemesterBillingInit /\ AccountsInit /\ TeachingInit /\ FeePlansInit
  /\ TranscriptsInit /\ GatewayTokensInit
  /\ IdCardInit /\ (focus # "cards" => NothingPriced)

\* The section with more credit hours has one exam, the other up to all.
FewExams == \A c \in Taken : CreditHours[c] > 2 => Cardinality(book'[c].exams) <= 1

ServicesNext ==
  /\ UNCHANGED focus
  /\ \/ /\ focus = "arithmetic" /\ Next
        /\ UNCHANGED <<semesterBillingVars, accountsVars, teachingVars, feePlansVars,
                       transcriptsVars, gatewayTokensVars, idCardVars>>
     \/ /\ focus = "billing" /\ SemesterBillingNext
        /\ UNCHANGED <<vars, accountsVars, teachingVars, feePlansVars,
                       transcriptsVars, gatewayTokensVars, idCardVars>>
     \/ /\ focus = "accounts" /\ AccountsNext
        /\ UNCHANGED <<vars, semesterBillingVars, teachingVars, feePlansVars,
                       transcriptsVars, gatewayTokensVars, idCardVars>>
     \/ /\ focus = "teaching" /\ TeachingNext
        /\ UNCHANGED <<vars, semesterBillingVars, accountsVars, feePlansVars,
                       transcriptsVars, gatewayTokensVars, idCardVars>>
     \/ /\ focus = "plans" /\ FeePlansNext
        /\ UNCHANGED <<vars, semesterBillingVars, accountsVars, teachingVars,
                       transcriptsVars, gatewayTokensVars, idCardVars>>
     \/ /\ focus = "transcripts" /\ TranscriptsNext /\ FewExams
        /\ UNCHANGED <<vars, semesterBillingVars, accountsVars, teachingVars,
                       feePlansVars, gatewayTokensVars, idCardVars>>
     \/ /\ focus = "tokens" /\ GatewayTokensNext
        /\ UNCHANGED <<vars, semesterBillingVars, accountsVars, teachingVars,
                       feePlansVars, transcriptsVars, idCardVars>>
     \/ /\ focus = "cards" /\ IdCardNext
        /\ UNCHANGED <<vars, semesterBillingVars, accountsVars, teachingVars,
                       feePlansVars, transcriptsVars, gatewayTokensVars>>

ServicesSpec == ServicesInit /\ [][ServicesNext]_servicesVars

\* No service tells one instructor, or one exam, from another by name.
Symmetry == Permutations(Instructors) \cup Permutations(Papers)

\* Every variable of the service that runs keeps its type.
ServicesTypeOK ==
  /\ focus = "billing" => SemesterBillingTypeOK
  /\ focus = "accounts" => AccountsTypeOK
  /\ focus = "teaching" => TeachingTypeOK
  /\ focus = "plans" => FeePlansTypeOK
  /\ focus = "transcripts" => TranscriptsTypeOK
  /\ focus = "tokens" => GatewayTokensTypeOK
  /\ focus = "cards" => IdCardTypeOK

MCCreditHours == [c \in Taken |-> IF c = CHOOSE d \in Taken : TRUE THEN 2 ELSE 3]

\* Policies without the ID card, with it on an invoice type or another, or free.
Flat(invoiceType, itemType) == Rate(invoiceType, itemType, 0, 0, 1)
Usual == <<Flat("APPLICATION", "APPLICATION"), Flat("ADMISSION", "ADMISSION"),
           Flat("SEMESTER", "TUITION")>>
MCCardRates ==
  {Usual, Append(Usual, [Flat("ID_CARD", "ID_CARD") EXCEPT !.amountMinor = 0])} \cup
  {Append(Usual, Flat(type, "ID_CARD")) :
     type \in {"APPLICATION", "ADMISSION", "ID_CARD", "SEMESTER"}}
==============================================================================
