------------------------ MODULE SlidingWindowLimiter ------------------------
(***************************************************************************)
(* class SlidingWindowRateLimiter of src/src/utils/rate_limiter.cpp.  Each *)
(* client has a RequestWindow: the time points of its admitted requests.   *)
(* is_allowed(client) holds client_mutex_ throughout, but it reads         *)
(* steady_clock::now() three times, in cleanup_old_requests,              *)
(* get_request_count and add_request, and the clock moves between them.    *)
(* It is three steps here, with the lock held from the first to the last:  *)
(*   Enter:   lock, find or create the window, drop requests <= now - W    *)
(*   Check:   count requests > now - W; at the limit, unlock and deny      *)
(*   Add:     push now, unlock, admit                                      *)
(* Time is whole ticks.  admitted[c] is a ghost history: the time point   *)
(* of every request of c ever admitted, in the order of the push_backs.    *)
(* c's vector holds some of those entries (cleanup erases, never moves     *)
(* the others, and its order matters to no reader), so requests[c] is the  *)
(* set of positions in admitted[c] of the entries still in the vector.     *)
(***************************************************************************)
EXTENDS Integers, Sequences, FiniteSets

CONSTANTS
    Threads,     \* threads calling is_allowed
    Clients,     \* client ids
    MaxPerWindow, \* max_requests_per_window_
    Window,      \* window_size_, in ticks
    MaxTime,     \* bound on the clock
    NoThread     \* client_mutex_ is free

ASSUME SlidingWindowAssumption ==
    /\ MaxPerWindow \in Nat /\ Window \in Nat \ {0} /\ MaxTime \in Nat
    /\ NoThread \notin Threads

Times == 0 .. MaxTime

VARIABLES
    now,        \* steady_clock::now()
    windows,    \* the clients present in client_windows_
    requests,   \* requests[c]: the entries of c's RequestWindow vector
    admitted,   \* admitted[c]: the stamps of c's admissions (ghost)
    mutex,      \* holder of client_mutex_
    pc,         \* pc[t]: "idle", "check" or "add"
    client      \* client[t]: the client of t's call

vars == <<now, windows, requests, admitted, mutex, pc, client>>

NoRequests == {}

\* The entries E of client c's history whose time point is in the set S.
CountIn(c, E, S) == Cardinality({i \in E : admitted[c][i] \in S})

\* The time points strictly after the cutoff now - window_size.
Recent == {s \in Times : s > now - Window}

-----------------------------------------------------------------------------
Init ==
    /\ now = 0
    /\ windows = {}
    /\ requests = [c \in Clients |-> NoRequests]
    /\ admitted = [c \in Clients |-> << >>]
    /\ mutex = NoThread
    /\ pc = [t \in Threads |-> "idle"]
    /\ client \in [Threads -> Clients]   \* meaningless while idle

(* is_allowed(c) up to the count: take client_mutex_, make c's window if it*)
(* is missing, and RequestWindow::cleanup_old_requests: erase every time   *)
(* point <= now - window_size.                                             *)
Enter(t, c) ==
    /\ pc[t] = "idle"
    /\ mutex = NoThread
    /\ mutex' = t
    /\ windows' = windows \cup {c}
    /\ requests' = [requests EXCEPT ![c] = {i \in @ : admitted[c][i] \in Recent}]
    /\ client' = [client EXCEPT ![t] = c]
    /\ pc' = [pc EXCEPT ![t] = "check"]
    /\ UNCHANGED <<now, admitted>>

\* Mutant: a client is denied only above the limit.
CheckOffByOne(t) ==
    LET full == CountIn(client[t], requests[client[t]], Recent) > MaxPerWindow IN
    /\ pc[t] = "check"
    /\ pc' = [pc EXCEPT ![t] = IF full THEN "idle" ELSE "add"]
    /\ mutex' = IF full THEN NoThread ELSE mutex
    /\ UNCHANGED <<now, windows, requests, admitted, client>>

(* RequestWindow::get_request_count: the time points after now - window;  *)
(* at max_requests_per_window_ or more, return false and unlock.           *)
Check(t) ==
    LET full == CountIn(client[t], requests[client[t]], Recent) >= MaxPerWindow IN
    /\ pc[t] = "check"
    /\ pc' = [pc EXCEPT ![t] = IF full THEN "idle" ELSE "add"]
    /\ mutex' = IF full THEN NoThread ELSE mutex
    /\ UNCHANGED <<now, windows, requests, admitted, client>>

(* RequestWindow::add_request: push now; return true and unlock.          *)
Add(t) ==
    LET c == client[t] IN
    /\ pc[t] = "add"
    /\ requests' = [requests EXCEPT ![c] = @ \cup {Len(admitted[c]) + 1}]
    /\ admitted' = [admitted EXCEPT ![c] = Append(@, now)]
    /\ mutex' = NoThread
    /\ pc' = [pc EXCEPT ![t] = "idle"]
    /\ UNCHANGED <<now, windows, client>>

(* cleanup_old_requests(): under client_mutex_, every window drops its     *)
(* time points <= now - window_size.                                       *)
CleanupOldRequests ==
    /\ mutex = NoThread
    /\ requests' = [c \in Clients |->
                      {i \in requests[c] : admitted[c][i] \in Recent}]
    /\ UNCHANGED <<now, windows, admitted, mutex, pc, client>>

\* The clock moves, with or without the lock held.
Tick ==
    /\ now < MaxTime
    /\ now' = now + 1
    /\ UNCHANGED <<windows, requests, admitted, mutex, pc, client>>

Next ==
    \/ Tick
    \/ CleanupOldRequests
    \/ \E t \in Threads : \/ \E c \in Clients : Enter(t, c)
                          \/ Check(t)
                          \/ Add(t)

Spec == Init /\ [][Next]_vars

-----------------------------------------------------------------------------
(* The sliding-window guarantee: in every span of window_size ticks, at    *)
(* most max_requests_per_window_ requests of a client were admitted, even  *)
(* though the clock moves between the count and the push of is_allowed.    *)
WindowMax ==
    \A c \in Clients : \A T \in Times :
        CountIn(c, DOMAIN admitted[c], (T - Window + 1) .. T) <= MaxPerWindow

=============================================================================
