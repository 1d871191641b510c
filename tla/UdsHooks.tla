------------------------------ MODULE UdsHooks ------------------------------
(***************************************************************************)
(* The contract between the services and the application: what each        *)
(* uds_app_ hook that the RX thread calls may return                       *)
(* (uds_app_interface.h), what it returns when the application does not    *)
(* provide it (uds_weak_defaults.c), and the negative response the         *)
(* services make of an error.  "0" is success.                             *)
(***************************************************************************)

Documented ==
  [read_did          |-> {"0", "EIO", "ENOENT", "EACCES", "EINVAL"},
   write_did         |-> {"0", "ENOENT", "EACCES", "EINVAL"},
   io_control        |-> {"0", "ENOENT", "EINVAL"},
   routine_results   |-> {"0", "ENOENT", "EBUSY"},
   flash_erase       |-> {"0", "EFAULT", "EINVAL"},
   flash_write       |-> {"0", "EFAULT", "EIO"},
   get_freeze_frame  |-> {"0", "ENOENT", "EINVAL"},
   verify_key        |-> {"0", "EACCES", "EINVAL"}]

Weak ==
  [read_did |-> "ENOENT", write_did |-> "EACCES", io_control |-> "ENOENT",
   routine_results |-> "ENOENT", flash_erase |-> "EOPNOTSUPP",
   flash_write |-> "EOPNOTSUPP", get_freeze_frame |-> "ENOENT",
   verify_key |-> "EACCES"]

\* uds_process_request also expects -ENOMEM of uds_app_read_did.
Results(hook) ==
  Documented[hook] \cup {Weak[hook]}
    \cup IF hook = "read_did" THEN {"ENOMEM"} ELSE {}

Errors(hook) == Results(hook) \ {"0"}

----------------------------------------------------------------------------
(* The negative responses to an error ret of a hook: of 0x22,              *)

ReadNrc(ret) == IF ret = "ENOMEM" THEN "0x78" ELSE "0x31"

\* of 0x2E and 0x2F,
WriteNrc(ret) ==
  CASE ret = "EINVAL" -> "0x13"
    [] ret = "ENOENT" -> "0x31"
    [] OTHER -> "0x22"

\* and of the services whose module is another.  A wrong key is answered by
\* 0x36 when it is one too many.
Refusals(hook, ret) ==
  CASE hook \in {"write_did", "io_control"} -> {WriteNrc(ret)}
    [] hook = "flash_erase" -> {"0x70"}
    [] hook = "flash_write" -> {"0x71"}
    [] hook = "verify_key" -> {"0x35", "0x36"}
    [] hook \in {"routine_results", "get_freeze_frame"} -> {"0x31"}
=============================================================================
