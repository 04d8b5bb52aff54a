---------------------------- MODULE Permissions -----------------------------
(***************************************************************************)
(* Who may write what to a unit (lambda/api/permissions.js): the role      *)
(* matrix, the actions a command body or a config body implies, and the    *)
(* checks of POST /fleet/units/{unit}/command and POST /fleet/config.      *)
(*                                                                         *)
(* A body is a function from the fields it carries to their values; what   *)
(* values a field accepts is given by the module that sends it.            *)
(***************************************************************************)

Roles == {"admin", "fm", "maint", "eu"}

MATRIX == [r \in Roles |->
    CASE r \in {"admin", "fm"} -> {"heater", "setpoint", "apu", "diag", "ota",
                                   "apu_ota", "config", "users", "location"}
      [] r = "maint" -> {"heater", "setpoint", "diag", "config"}
      [] r = "eu" -> {}]

CanWrite(role, action) == action \in MATRIX[role]

(* The action each field of a command, and each key of a config, stands    *)
(* for.                                                                    *)
CommandAction ==
    [heater |-> "heater", apu_command |-> "apu", firmware_target |-> "ota",
     apu_firmware_target |-> "apu_ota",
     clmt_setpoint_f |-> "setpoint", batt_setpoint_v |-> "setpoint"]

ConfigAction ==
    [firmware_target |-> "ota", reboot |-> "ota",
     clmt_setpoint_f |-> "setpoint", batt_setpoint_v |-> "setpoint",
     poll_interval_s |-> "config", report_mode |-> "config"]

(* validateCommand keeps the fields it knows and wants at least one;       *)
(* handleSetConfig refuses a body with a key it does not know.             *)
ValidCommand(body) == DOMAIN body \cap DOMAIN CommandAction # {}

ValidConfig(body) == DOMAIN body \subseteq DOMAIN ConfigAction

(* Every action a body implies must be permitted.                          *)
AuthorizeCommand(role, body) ==
    \A f \in DOMAIN body \cap DOMAIN CommandAction : CanWrite(role, CommandAction[f])

AuthorizeConfig(role, body) ==
    \A f \in DOMAIN body : CanWrite(role, ConfigAction[f])
=============================================================================
