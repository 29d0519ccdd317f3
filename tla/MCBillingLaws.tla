---------------------------- MODULE MCBillingLaws ----------------------------
(***************************************************************************)
(* Small inputs for BillingLaws: three installments, every kind of plan.   *)
(***************************************************************************)
EXTENDS BillingLaws

MCTotals == {0, 1, 2, 7, 100, 101}

Plan(type, advance, percents) ==
  [advanceType |-> type, advance |-> advance, customPercents |-> percents]

MCPlans ==
  {Plan("NONE", 0, <<>>), Plan("PERCENT", 33, <<>>), Plan("PERCENT", 99, <<>>),
   Plan("FIXED", 3, <<>>), Plan("FIXED", 200, <<>>), Plan("FIXED", 0, <<>>),
   Plan("NONE", 0, <<33, 33, 34>>), Plan("PERCENT", 50, <<1, 98, 1>>)}

MCWaivers ==
  {[percent |-> p, fixed |-> f] : p \in {0, 50, 100}, f \in {0, 3, 60}}

\* The policy of a department that came in at 2 is free of charge.
Rate(invoiceType, itemType, departmentId, semesterId, from) ==
  [invoiceType |-> invoiceType, itemType |-> itemType,
   calcMethod |-> IF itemType = "TUITION" THEN "PER_CREDIT" ELSE "FLAT",
   amountMinor |-> IF departmentId = 1 /\ from = 2 THEN 0 ELSE 5,
   departmentId |-> departmentId, semesterId |-> semesterId,
   effectiveFrom |-> from, effectiveTo |-> IF from = 1 THEN 3 ELSE 0,
   isActive |-> TRUE]

MCRates ==
  {Rate(kind[1], kind[2], d, s, f) : d \in {0, 1, 2}, s \in {0, 1}, f \in {1, 2},
     kind \in {<<"APPLICATION", "APPLICATION">>, <<"ADMISSION", "ADMISSION">>,
              <<"ADMISSION", "ID_CARD">>, <<"ID_CARD", "ID_CARD">>,
              <<"SEMESTER", "TUITION">>, <<"SEMESTER", "LIBRARY">>, <<"SEMESTER", "ID_CARD">>}}

\* Two policies of any kind, or three that apply to the admission.
MCRateCards ==
  {<<p, q>> : p, q \in MCRates} \cup
  {<<p, q, r>> : p, q, r \in {rate \in MCRates : /\ rate.invoiceType = "ADMISSION"
                                                 /\ rate.semesterId = 0
                                                 /\ rate.departmentId # 2}}

MCContexts == {[departmentId |-> 1, semesterId |-> s, at |-> t] : s \in {0, 1}, t \in {1, 4}}
==============================================================================
