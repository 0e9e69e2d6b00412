--------------------------- MODULE MCRequestStore ---------------------------
(* Small instances of RequestStore for TLC: two commands for one tab, a    *)
(* tab creation, and two resolvers of the first command.                   *)
EXTENDS RequestStore

CONSTANTS
    first, second,  \* send_cdp_command for the same tab
    creation,       \* create_browser_tab
    confirm,        \* resolve_browser_request(first, confirmed_succeeded)
    restart,        \* resolve_browser_request(first, restart_failed)
    tab

MCLaneOf ==
    [r \in Request |-> IF r \in {first, second} THEN tab ELSE NoLane]
MCTarget == [r \in Request |-> IF r \in {confirm, restart} THEN first ELSE NoRequest]
MCRestartFailed == Request \cap {restart}
=============================================================================
