---------------------------- MODULE MCPatchDriver ----------------------------
(***************************************************************************)
(* PatchDriver over a worklist of three files, two of which the           *)
(* transformation changes.                                                 *)
(***************************************************************************)
EXTENDS PatchDriver

MCWork == <<"api/handler.go", "cache/handler.go", "upload/handler.go">>
MCChanges == {"api/handler.go", "cache/handler.go"}
AllDrivers == {ExitDriver, BareDriver, CheckDriver, CmdDriver, WalkDriver}
ExitOnly == {ExitDriver}
WalkOnly == {WalkDriver}
=============================================================================
