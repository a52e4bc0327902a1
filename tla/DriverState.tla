---------------------------- MODULE DriverState ----------------------------
(* The state of a driver and of the controller it drives.                   *)

VARIABLES drv,      \* the driver: its statics and where its call stands
          mem,      \* memory the driver and the controller both access
          dev       \* the controller: registers and internal state

state == <<drv, mem, dev>>
=============================================================================
