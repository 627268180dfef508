-------------------------- MODULE MCBackupRestore --------------------------
(***************************************************************************)
(* BackupRestore on an appliance with one account, one device and one      *)
(* feature, and an uploaded file that has another account and device, and  *)
(* another row for the account that is there.                              *)
(***************************************************************************)
EXTENDS BackupRestore, TLC

Feature == [section |-> "feature", key |-> "f"]
Account(k) == [section |-> "auth", key |-> k]
Device(k) == [section |-> "device", key |-> k]

InitialRows == {Account("a"), Device("d"), Feature}
FactoryRows == {Feature}
OtherAccount(k) == [section |-> "auth", key |-> k, value |-> "other"]
UploadedFiles ==
    {[config |-> {OtherAccount("a"), Account("b"), Device("e"), Feature},
      interfaces |-> "uploaded"]}

RequestSymmetry == Permutations(Requests)
=============================================================================
