--------------------------- MODULE MC_PosixSession ---------------------------
(***************************************************************************)
(* Values for TLC: one terminating signal stands for the four, which the   *)
(* code treats alike, and an application with three kinds of history.      *)
(***************************************************************************)
EXTENDS PosixSessionProperties, TLC

MCSignals == <<"SIGTERM", "SIGWINCH", "SIGTSTP", "SIGCONT">>

Default == [s \in {"SIGTERM", "SIGWINCH", "SIGTSTP", "SIGCONT"} |-> "SIG_DFL"]

\* A program that never touched its signal actions.
DefaultActions == {Default}

\* One that ignores termination, and one whose own handlers return.
AllActions ==
  { Default,
    [Default EXCEPT !["SIGTERM"] = "SIG_IGN", !["SIGTSTP"] = "SIG_IGN"],
    [Default EXCEPT !["SIGTERM"] = "returns", !["SIGTSTP"] = "returns",
                    !["SIGCONT"] = "returns"],
    [Default EXCEPT !["SIGTERM"] = "exits", !["SIGWINCH"] = "returns"] }

\* Without the one that exits, which ends the process like a default action.
ReturningActions == {f \in AllActions : f["SIGTERM"] # "exits"}

NoFailures == {}

ConstructorFailures ==
  {"c_query", "c_raw", "c_nonblock", "c_install", "c_write", "c_size", "c_ack"}

UpdateFailures == {"u_raw", "u_nonblock", "u_write", "u_size", "u_ack"}

\* Everything that can fail, whether it reports it or not.
AllFailures ==
  ConstructorFailures \cup UpdateFailures
    \cup {"t_size", "updated", "polled", "er_write", "er_attr", "er_flags"}
=============================================================================
