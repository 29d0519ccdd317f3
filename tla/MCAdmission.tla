---------------------------- MODULE MCAdmission ----------------------------
\* Instances of Admission.
EXTENDS Admission, TLC

CONSTANTS s1, h1, h2

Saved(application_fee, admission_payment) ==
  [applicationFeeRequired |-> application_fee,
   admissionPaymentRequiredToEnroll |-> admission_payment]

MCSettings == {Saved(TRUE, TRUE), Saved(TRUE, FALSE)}
MCFeeSets == {{"APPLICATION", "ADMISSION", "ID_CARD"}, {"CARD_ON_ADMISSION"}}
Symmetry == Permutations(Handlers)
==============================================================================
