---------------------------- MODULE DeviceMapper ----------------------------
(* ml_device_mapper.c: a verity device is created in four steps, and nothing *)
(* is taken back when one of them fails.                                     *)
EXTENDS Process

\* The device, its node under /dev/mapper, the table that is loaded, and
\* whether the device is in use with it.
MapperKernel == [device |-> FALSE, node |-> FALSE, table |-> "none", active |-> "none"]

\* DEV_CREATE refuses a name that exists. So does mknod(), but the node is only
\* there when the device is.
create_device ==
  \/ /\ At("create")
     /\ IF kernel.device THEN Fails("out")
        ELSE Call([kernel EXCEPT !.device = TRUE], "mknod", "out")
  \/ At("mknod") /\ Call([kernel EXCEPT !.node = TRUE], "load", "out")

load_table ==
  At("load") /\ Call([kernel EXCEPT !.table = proc.arg], "suspend", "out")

\* DEV_SUSPEND without the suspend flag puts the loaded table to use.
suspend_device ==
  At("suspend") /\ Call([kernel EXCEPT !.active = kernel.table], "out", "out")

ml_device_mapper_verity_create ==
  \/ At("begin") /\ Acquire("control_fd", "create", "return")
  \/ create_device
  \/ load_table
  \/ suspend_device
  \/ At("out") /\ Release("control_fd", "return")

MapperBegin ==
  \E table \in {"table1", "table2"} :
    Begin([fn |-> "ml_device_mapper_verity_create", arg |-> table])

MapperStep == In("ml_device_mapper_verity_create") /\ ml_device_mapper_verity_create

MapperDone ==
  /\ proc.before = MapperKernel
  /\ kernel = [device |-> TRUE, node |-> TRUE, table |-> proc.arg, active |-> proc.arg]

\* A step that failed has not been passed, and a device that exists is never
\* touched by a later call.
MapperUndone ==
  /\ kernel.active = proc.before.active
  /\ proc.before.device => kernel = proc.before
  /\ kernel.table # "none" => kernel.node
  /\ kernel.node => kernel.device

=============================================================================
