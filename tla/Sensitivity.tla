---------------------------- MODULE Sensitivity ----------------------------
(***************************************************************************)
(* SensitivityLevel of core/models.py: an ordered enumeration.             *)
(***************************************************************************)
EXTENDS Integers

PUBLIC       == 0
INTERNAL     == 1
CONFIDENTIAL == 2
RESTRICTED   == 3
SECRET       == 4
SensitivityLevel == PUBLIC..SECRET

=============================================================================
