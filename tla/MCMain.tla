------------------------------- MODULE MCMain -------------------------------
(* Command lines that take every path through main, on one port.            *)
EXTENDS Main

with(mode, stops, quiet, port, ends) ==
    [mode |-> mode, stops |-> stops, quiet |-> quiet, port |-> port, ends |-> ends]

EveryPath == {with("sync", "never", TRUE, 8000, TRUE),
              with("share", "never", TRUE, 8000, FALSE),
              with("get", "never", FALSE, 8000, TRUE),
              with("fetch", "never", TRUE, 8000, TRUE),
              with("sync", "config", TRUE, 8000, FALSE),
              with("none", "arguments", TRUE, 8000, FALSE)}

Mistyped == {with("none", "arguments", quiet, 8000, FALSE) : quiet \in BOOLEAN}
            \cup {with("fetch", "never", TRUE, 8000, TRUE)}

=============================================================================
