----------------------- MODULE DeviceAllocationRefines -----------------------
(* DeviceAllocation implements DeviceTable: the requests that interleave     *)
(* statement by statement, on any number of replicas, look as if each of     *)
(* them happened at once, at the moment it writes.                           *)
EXTENDS DeviceAllocation

Table == INSTANCE DeviceTable WITH table <- devices, lost <- dropped

\* Every write to the devices table is an operation DeviceTable allows in the
\* state it happens in: what a handler read before (the names, addresses,
\* routes, the number of devices) still holds when it writes, although
\* devices are deleted and keys rotated without the lock meanwhile.
ImplementsTable == Table!TableSpec
=============================================================================
