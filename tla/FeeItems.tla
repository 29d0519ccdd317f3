------------------------------ MODULE FeeItems ------------------------------
(***************************************************************************)
(* Which fee policy is charged, and the items of an invoice (lib/billing.ts *)
(* pickPolicy, buildInvoiceItems; lib/invoiceCore.ts getFeeSchedule).      *)
(* Policies come as a sequence, in the order the database returns them; 0  *)
(* stands for null.                                                        *)
(***************************************************************************)
EXTENDS Integers, Sequences

\* A context: [departmentId, semesterId, at].
matches(p, c) ==
  /\ p.isActive
  /\ p.effectiveFrom <= c.at
  /\ p.effectiveTo = 0 \/ p.effectiveTo >= c.at
  /\ p.departmentId \in {0, c.departmentId}
  /\ p.semesterId \in {0, c.semesterId}

specificity(p) ==
  (IF p.semesterId # 0 THEN 2 ELSE 0) + (IF p.departmentId # 0 THEN 1 ELSE 0)

Before(p, q) ==
  \/ specificity(p) > specificity(q)
  \/ specificity(p) = specificity(q) /\ p.effectiveFrom > q.effectiveFrom

\* The policies of an item type, among those of a scope, that apply.
Candidates(policies, scope, itemType, c) ==
  {i \in scope : policies[i].itemType = itemType /\ matches(policies[i], c)}

\* The index of the policy picked: the sort is stable.
pickPolicy(policies, candidates) ==
  CHOOSE i \in candidates : \A j \in candidates \ {i} :
    \/ Before(policies[i], policies[j])
    \/ i < j /\ ~Before(policies[j], policies[i])

ByInvoiceType(policies, type) ==
  {i \in DOMAIN policies : policies[i].invoiceType = type}
ByItemType(policies, type) ==
  {i \in DOMAIN policies : policies[i].itemType = type}

\* PER_CREDIT items bill the credits, the others one unit.
quantity(p, credits) == IF p.calcMethod = "PER_CREDIT" THEN credits ELSE 1

ItemOf(policies, scope, itemType, c, credits) ==
  LET i == pickPolicy(policies, Candidates(policies, scope, itemType, c))
  IN  [itemType |-> itemType, policyId |-> i,
       amountMinor |-> policies[i].amountMinor * quantity(policies[i], credits)]

\* One item per item type of the scope; items of no amount are left out.
buildInvoiceItems(policies, scope, types, c, credits) ==
  {item \in {ItemOf(policies, scope, t, c, credits) :
               t \in {u \in types : Candidates(policies, scope, u, c) # {}}} :
     item.amountMinor > 0}

ItemTypes(policies) == {policies[i].itemType : i \in DOMAIN policies}

\* The invoices there are.  Application and semester invoices leave no item out.
ApplicationItems(policies, c) ==
  buildInvoiceItems(policies, ByInvoiceType(policies, "APPLICATION"),
                    ItemTypes(policies), c, 0)

\* Mutant: the card is an item of the admission invoice, too.
AdmissionItems_WithCard(policies, c) ==
  buildInvoiceItems(policies, ByInvoiceType(policies, "ADMISSION"),
                    ItemTypes(policies), c, 0)

\* The admission invoice leaves the ID card out.
AdmissionItems(policies, c) ==
  buildInvoiceItems(policies, ByInvoiceType(policies, "ADMISSION"),
                    ItemTypes(policies) \ {"ID_CARD"}, c, 0)

IdCardItems(policies, c) ==
  buildInvoiceItems(policies, ByItemType(policies, "ID_CARD"), {"ID_CARD"}, c, 0)

SemesterItems(policies, c, credits, onlyTuition) ==
  buildInvoiceItems(policies, ByInvoiceType(policies, "SEMESTER"),
                    IF onlyTuition THEN {"TUITION"} ELSE ItemTypes(policies),
                    c, credits)

\* What a student is shown before she applies: a line for each item type of the
\* invoice type with a policy that applies; the amount is that of one unit.
getFeeSchedule(policies, invoiceType, c) ==
  LET scope == ByInvoiceType(policies, invoiceType)
  IN  {ItemOf(policies, scope, t, c, 1) :
         t \in {u \in ItemTypes(policies) : Candidates(policies, scope, u, c) # {}}}
==============================================================================
