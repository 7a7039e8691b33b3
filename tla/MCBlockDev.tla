----------------------------- MODULE MCBlockDev ------------------------------
(***************************************************************************)
(* Instances of BlockDev.  The cache of Full has fewer entries than there  *)
(* are blocks: the other calls go to the device.                           *)
(***************************************************************************)
EXTENDS BlockDev

One == {CHOOSE v \in Values : TRUE}

Device ==
  [depths |-> {2}, reads |-> TRUE, erases |-> TRUE, readonly |-> FALSE, io |-> FALSE,
   values |-> Values, parts |-> {}, static |-> FALSE,
   careful |-> {"erase", "partial", "replace", "reuse"}]

ReadCache == Device
WriteCache == [Device EXCEPT !.depths = {0, 1}, !.reads = FALSE]
Ram == [Device EXCEPT !.erases = FALSE, !.depths = {0}, !.io = TRUE, !.parts = {1, 2}]
ReadOnly == [Device EXCEPT !.readonly = TRUE, !.static = TRUE, !.depths = {1, 2}]
Errors == [Device EXCEPT !.io = TRUE, !.values = One, !.parts = {0, 1, 3}]
Full == [Device EXCEPT !.depths = {1}, !.parts = {1}]
AllConfigs == {Errors, ReadCache, WriteCache, Ram, ReadOnly, Full}

(* Callers that rely on what blockdevice.h says.                           *)
SmallConfigs == {[Full EXCEPT !.careful = @ \ {"reuse"}]}
ReplaceConfigs == {[Device EXCEPT !.careful = @ \ {"replace"}]}
PartsConfigs == {[Device EXCEPT !.parts = {1}, !.careful = @ \ {"partial"}]}
EraseConfigs == {[Device EXCEPT !.careful = {}]}
UncachedConfigs == {[Device EXCEPT !.depths = {}]}
=============================================================================
