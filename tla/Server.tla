------------------------------- MODULE Server -------------------------------
(***************************************************************************)
(* The server program of src/sv.c: server_loop of src/lib/server.c on a    *)
(* server that init_server has made.  No host and port are ever set, so    *)
(* there is no socket and nobody connects; what is left is the loop and    *)
(* the game's timer, which init_server_kqueue would register.              *)
(***************************************************************************)
VARIABLES
    kq,         \* server->kq: "stdin" (0, as calloc leaves it) or "kqueue"
    due,        \* the game's timer has fired
    pc,         \* "kevent", "update" or "usleep"
    started     \* server->t is set

vars == <<kq, due, pc, started>>

\* sv.c goes from init_server straight to the loop.
init_server == kq = "stdin" /\ due = FALSE /\ started = FALSE

\* kevent fails on a descriptor that is no kqueue.
handle_server_events ==
    /\ pc = "kevent"
    /\ \/ kq # "kqueue" /\ pc' = "usleep" /\ UNCHANGED due
       \/ kq = "kqueue" /\ due /\ due' = FALSE /\ pc' = "update"
    /\ UNCHANGED <<kq, started>>

usleep == pc = "usleep" /\ pc' = "kevent" /\ UNCHANGED <<kq, due, started>>

update_server ==
    /\ pc = "update" /\ pc' = "kevent"
    /\ started' = TRUE
    /\ UNCHANGED <<kq, due>>

timer_fires == kq = "kqueue" /\ due' = TRUE /\ UNCHANGED <<kq, pc, started>>

Init == init_server /\ pc = "kevent"

server_loop == handle_server_events \/ usleep \/ update_server

Next == server_loop \/ timer_fires

FairSpec == Init /\ [][Next]_vars /\ WF_vars(server_loop) /\ WF_vars(timer_fires)

\* README:89-90 "server_loop()", "update_server(dt)": the server's loop
\* updates the world again and again.  The kqueue it asks was never made.
WorldUpdated == []<>(pc = "update")

=============================================================================
