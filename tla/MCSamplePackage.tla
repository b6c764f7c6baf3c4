---------------------------- MODULE MCSamplePackage ----------------------------
(* SamplePackage with what goes wrong around its package and its windows.  *)
EXTENDS SamplePackage

AnyHost == {14}
BarThrows == AllDisturbances \ {"throws"}
==============================================================================
