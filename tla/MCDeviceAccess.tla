--------------------------- MODULE MCDeviceAccess ---------------------------
(* One poller and one print worker, and a task that only pokes the printer.   *)
EXTENDS DeviceAccess

MCPollers == {"poller"}
MCJobs == {"worker"}
MCMediaChanges == {"setter"}
MCIdentifies == {"ident"}
MCNoTask == {}
MCBothTransports == {"usb", "bt"}
MCUsbOnly == {"usb"}
MCBtOnly == {"bt"}

=============================================================================
