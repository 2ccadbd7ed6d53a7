--------------------- MODULE SlidingWindowLimiterProofs ---------------------
(***************************************************************************)
(* Proof, for every limit, window, clock bound and number of threads and   *)
(* clients, that SlidingWindowRateLimiter::is_allowed admits at most       *)
(* max_requests_per_window_ requests of a client in any window_size ticks  *)
(* (WindowMax), although the clock moves between the count and the push.  *)
(*                                                                         *)
(* WindowMax is not inductive: it says nothing of the vector the next      *)
(* count reads, nor of a call that has counted and not yet pushed.  The    *)
(* strengthening IInv adds                                                 *)
(*   Kept:   every admission stamped after now - window_size is still in   *)
(*           the client's vector (cleanup only erases older ones);         *)
(*   Locked: a call between its lock and its unlock holds client_mutex_;   *)
(*   Room:   a call about to push counted fewer than the limit among the   *)
(*           recent entries, and still does: only the clock can move while *)
(*           it holds the lock, and that only shrinks the recent set.      *)
(* A push at now enters just the windows ending in now .. now+W-1; each    *)
(* of them holds, by Kept, only entries still in the vector and recent,   *)
(* fewer than the limit by Room, so at most the limit after the push.      *)
(***************************************************************************)
EXTENDS SlidingWindowLimiter, FiniteSetTheorems, TLAPS

PcSet == {"idle", "check", "add"}

TypeOK ==
    /\ now \in Times
    /\ windows \subseteq Clients
    /\ admitted \in [Clients -> Seq(Times)]
    /\ requests \in [Clients -> SUBSET Nat]
    /\ \A c \in Clients : requests[c] \subseteq DOMAIN admitted[c]
    /\ mutex \in Threads \cup {NoThread}
    /\ pc \in [Threads -> PcSet]
    /\ client \in [Threads -> Clients]

Kept ==
    \A c \in Clients : \A i \in DOMAIN admitted[c] :
        admitted[c][i] \in Recent => i \in requests[c]

Locked == \A t \in Threads : pc[t] # "idle" => mutex = t

Room ==
    \A t \in Threads : pc[t] = "add" =>
        CountIn(client[t], requests[client[t]], Recent) < MaxPerWindow

IInv == TypeOK /\ Kept /\ Locked /\ Room /\ WindowMax

-----------------------------------------------------------------------------
(* The entries of a history whose stamp is in S are finitely many.         *)
LEMMA EntriesFinite ==
    ASSUME NEW a \in Seq(Times), NEW E \in SUBSET DOMAIN a, NEW S
    PROVE  IsFiniteSet({i \in E : a[i] \in S})
<1>1. IsFiniteSet(DOMAIN a)
    BY FS_Interval
<1>2. {i \in E : a[i] \in S} \subseteq DOMAIN a
    OBVIOUS
<1> QED
    BY <1>1, <1>2, FS_Subset, Zenon

(* The entries of history s stamped in S.                                 *)
StampsIn(s, S) == Cardinality({i \in DOMAIN s : s[i] \in S})

(* A push_back of a time point x adds one entry to the count of a set of   *)
(* time points S exactly when x is in S.                                   *)
LEMMA AppendCount ==
    ASSUME NEW a \in Seq(Times), NEW x \in Times, NEW S
    PROVE  StampsIn(Append(a, x), S) =
               IF x \in S THEN StampsIn(a, S) + 1 ELSE StampsIn(a, S)
<1> DEFINE A == {i \in DOMAIN a : a[i] \in S}
           B == {i \in DOMAIN Append(a, x) : Append(a, x)[i] \in S}
           n == Len(a) + 1
<1> USE DEF StampsIn
<1>1. IsFiniteSet(A) /\ n \notin A
    <2>1. IsFiniteSet(A)
        BY EntriesFinite, Zenon
    <2>2. n \notin DOMAIN a
        OBVIOUS
    <2> QED
        BY <2>1, <2>2
<1>2. CASE x \in S
    <2>1. B = A \cup {n}
        BY <1>2
    <2> QED
        BY <1>1, <1>2, <2>1, FS_AddElement
<1>3. CASE x \notin S
    <2>1. B = A
        BY <1>3
    <2> QED
        BY <1>3, <2>1
<1> QED
    BY <1>2, <1>3

(* A window that contains now, before the push of a call that counted     *)
(* fewer than the limit among the recent entries of the vector, holds     *)
(* fewer than the limit: all its entries are recent, hence still there.   *)
LEMMA WindowBeforePush ==
    ASSUME TypeOK, Kept, NEW c \in Clients, NEW T \in Times,
           now \in (T - Window + 1) .. T,
           CountIn(c, requests[c], Recent) < MaxPerWindow
    PROVE  CountIn(c, DOMAIN admitted[c], (T - Window + 1) .. T) < MaxPerWindow
<1> DEFINE a == admitted[c]
           A == {i \in DOMAIN a : a[i] \in (T - Window + 1) .. T}
           R == {i \in requests[c] : a[i] \in Recent}
<1>1. a \in Seq(Times) /\ requests[c] \subseteq DOMAIN a
    BY DEF TypeOK
<1>2. A \subseteq R
    <2> SUFFICES ASSUME NEW i \in A PROVE i \in R
        OBVIOUS
    <2>1. a[i] \in Times /\ a[i] \in (T - Window + 1) .. T
        BY <1>1
    <2>2. a[i] > now - Window
        BY <2>1, SlidingWindowAssumption DEF Times
    <2>3. a[i] \in Recent
        BY <2>1, <2>2 DEF Recent
    <2> QED
        BY <2>3 DEF Kept
<1>3. IsFiniteSet(R)
    BY <1>1, EntriesFinite, Zenon
<1>4. IsFiniteSet(A) /\ Cardinality(A) <= Cardinality(R)
    BY <1>2, <1>3, FS_Subset
<1>7. Cardinality(A) \in Nat /\ Cardinality(R) \in Nat
    BY <1>3, <1>4, FS_CardinalityType
<1>5. Cardinality(R) < MaxPerWindow
    BY DEF CountIn
<1>6. Cardinality(A) < MaxPerWindow
    BY <1>4, <1>5, <1>7, SlidingWindowAssumption
<1> QED
    BY <1>6 DEF CountIn

-----------------------------------------------------------------------------
(* The initial state: no client has a window or an admission, no call is  *)
(* in progress.                                                            *)
LEMMA InitIInv == Init => IInv
<1> SUFFICES ASSUME Init PROVE IInv
    OBVIOUS
<1>1. TypeOK
    BY SlidingWindowAssumption DEF Init, TypeOK, Times, NoRequests, PcSet
<1>2. WindowMax
    <2> SUFFICES ASSUME NEW c \in Clients, NEW T \in Times
                 PROVE  CountIn(c, DOMAIN admitted[c], (T - Window + 1) .. T)
                            <= MaxPerWindow
        BY DEF WindowMax
    <2>1. {i \in DOMAIN admitted[c] : admitted[c][i] \in (T - Window + 1) .. T} = {}
        BY DEF Init
    <2>2. CountIn(c, DOMAIN admitted[c], (T - Window + 1) .. T) = 0
        BY <2>1, FS_EmptySet DEF CountIn
    <2> QED
        BY <2>2, SlidingWindowAssumption
<1> QED
    BY <1>1, <1>2 DEF Init, IInv, Kept, Locked, Room

(* The count of is_allowed is a natural number, and shrinks with the set  *)
(* of time points it counts.                                               *)
LEMMA CountMono ==
    ASSUME TypeOK, NEW c \in Clients, NEW E \in SUBSET DOMAIN admitted[c],
           NEW S, NEW S2 \in SUBSET S
    PROVE  /\ CountIn(c, E, S) \in Nat
           /\ CountIn(c, E, S2) <= CountIn(c, E, S)
<1> DEFINE a == admitted[c]
<1>1. a \in Seq(Times)
    BY DEF TypeOK
<1>2. IsFiniteSet({i \in E : a[i] \in S})
    BY <1>1, EntriesFinite, Zenon
<1>3. {i \in E : a[i] \in S2} \subseteq {i \in E : a[i] \in S}
    OBVIOUS
<1> QED
    BY <1>2, <1>3, FS_Subset, FS_CardinalityType DEF CountIn

(* While one thread holds client_mutex_, or nobody does, every other       *)
(* thread is outside is_allowed.                                           *)
LEMMA OthersIdle ==
    ASSUME Locked, NEW t \in Threads, mutex \in {t, NoThread},
           NEW u \in Threads, u # t
    PROVE  pc[u] = "idle"
BY SlidingWindowAssumption DEF Locked

-----------------------------------------------------------------------------
(* The clock moves: the recent set shrinks, so nothing counted grows, and  *)
(* what drops out of it was never needed in the vector.                    *)
LEMMA TickIInv ==
    ASSUME IInv, Tick
    PROVE  IInv'
<1> USE DEF IInv
<1>1. Recent' \subseteq Recent /\ Recent' = {s \in Times : s > now + 1 - Window}
    BY SlidingWindowAssumption DEF Tick, Recent, TypeOK, Times
<1>2. TypeOK'
    BY SlidingWindowAssumption DEF Tick, TypeOK, Times
<1>3. Kept'
    BY <1>1 DEF Tick, Kept
<1>4. Locked'
    BY DEF Tick, Locked
<1>5. Room'
    <2> SUFFICES ASSUME NEW t \in Threads, pc[t] = "add"
                 PROVE  CountIn(client[t], requests[client[t]], Recent')
                            < MaxPerWindow
        BY DEF Tick, Room, CountIn
    <2>1. client[t] \in Clients /\ requests[client[t]] \subseteq DOMAIN admitted[client[t]]
        BY DEF TypeOK
    <2>2. CountIn(client[t], requests[client[t]], Recent') <=
          CountIn(client[t], requests[client[t]], Recent)
        BY <1>1, <2>1, CountMono
    <2>3. CountIn(client[t], requests[client[t]], Recent) < MaxPerWindow
        BY DEF Room
    <2>4. CountIn(client[t], requests[client[t]], Recent) \in Nat
          /\ CountIn(client[t], requests[client[t]], Recent') \in Nat
        BY <1>1, <2>1, CountMono
    <2> QED
        BY <2>2, <2>3, <2>4, SlidingWindowAssumption
<1>6. WindowMax'
    BY DEF Tick, WindowMax, CountIn
<1> QED
    BY <1>2, <1>3, <1>4, <1>5, <1>6

(* cleanup_old_requests() erases only time points <= now - window_size,   *)
(* none of which Kept asks for, and runs only while no call is inside     *)
(* is_allowed.                                                             *)
LEMMA CleanupIInv ==
    ASSUME IInv, CleanupOldRequests
    PROVE  IInv'
<1> USE DEF IInv
<1>1. TypeOK'
    BY DEF CleanupOldRequests, TypeOK
<1>2. Kept'
    BY DEF CleanupOldRequests, Kept, Recent
<1>3. \A t \in Threads : pc[t] = "idle"
    BY SlidingWindowAssumption DEF CleanupOldRequests, Locked
<1>4. Locked' /\ Room'
    BY <1>3 DEF CleanupOldRequests, Locked, Room
<1>5. WindowMax'
    BY DEF CleanupOldRequests, WindowMax, CountIn
<1> QED
    BY <1>1, <1>2, <1>4, <1>5

(* is_allowed takes the lock, and cleans the caller's window the same way. *)
LEMMA EnterIInv ==
    ASSUME IInv, NEW t \in Threads, NEW c \in Clients, Enter(t, c)
    PROVE  IInv'
<1> USE DEF IInv
<1>1. TypeOK'
    BY DEF Enter, TypeOK, PcSet
<1>2. Kept'
    BY DEF Enter, Kept, Recent, TypeOK
<1>3. \A u \in Threads \ {t} : pc'[u] = "idle"
    <2> SUFFICES ASSUME NEW u \in Threads \ {t} PROVE pc'[u] = "idle"
        OBVIOUS
    <2>1. pc[u] = "idle"
        BY OthersIdle DEF Enter
    <2> QED
        BY <2>1 DEF Enter, TypeOK
<1>4. pc'[t] = "check" /\ mutex' = t
    BY DEF Enter, TypeOK
<1>5. Locked' /\ Room'
    BY <1>3, <1>4 DEF Locked, Room
<1>6. WindowMax'
    BY DEF Enter, WindowMax, CountIn
<1> QED
    BY <1>1, <1>2, <1>5, <1>6

(* get_request_count and the comparison: at the limit the call unlocks    *)
(* and is denied; under it the call goes on to push, having counted fewer  *)
(* than the limit.                                                         *)
LEMMA CheckIInv ==
    ASSUME IInv, NEW t \in Threads, Check(t)
    PROVE  IInv'
<1> USE DEF IInv
<1> DEFINE cnt == CountIn(client[t], requests[client[t]], Recent)
<1>1. cnt \in Nat
    <2>1. client[t] \in Clients /\ requests[client[t]] \subseteq DOMAIN admitted[client[t]]
        BY DEF TypeOK
    <2> QED
        BY <2>1, CountMono
<1>2. mutex = t
    BY DEF Check, Locked
<1>3. \A u \in Threads \ {t} : pc'[u] = "idle"
    <2> SUFFICES ASSUME NEW u \in Threads \ {t} PROVE pc'[u] = "idle"
        OBVIOUS
    <2>1. pc[u] = "idle"
        BY <1>2, OthersIdle
    <2> QED
        BY <2>1 DEF Check, TypeOK
<1>4. TypeOK'
    BY <1>2 DEF Check, TypeOK, PcSet
<1>5. Kept'
    BY DEF Check, Kept, Recent
<1>6. Locked' /\ Room'
    <2>1. CASE cnt >= MaxPerWindow
        <3>1. pc'[t] = "idle"
            BY <2>1 DEF Check, TypeOK
        <3> QED
            BY <1>3, <3>1 DEF Locked, Room
    <2>2. CASE ~(cnt >= MaxPerWindow)
        <3>1. pc'[t] = "add" /\ mutex' = t
            BY <1>2, <2>2 DEF Check, TypeOK
        <3>2. cnt < MaxPerWindow
            BY <1>1, <2>2, SlidingWindowAssumption
        <3>3. CountIn(client[t], requests[client[t]], Recent)' = cnt
            BY DEF Check, CountIn, Recent
        <3> QED
            BY <1>3, <3>1, <3>2, <3>3 DEF Locked, Room
    <2> QED
        BY <2>1, <2>2
<1>8. WindowMax'
    BY DEF Check, WindowMax, CountIn
<1> QED
    BY <1>4, <1>5, <1>6, <1>8

(* add_request pushes now into the caller's vector and the call unlocks:   *)
(* each window containing now gains one admission, and had fewer than the  *)
(* limit by WindowBeforePush.                                              *)
LEMMA AddIInv ==
    ASSUME IInv, NEW t \in Threads, Add(t)
    PROVE  IInv'
<1> USE DEF IInv
<1> DEFINE c == client[t]
           a == admitted[c]
           n == Len(a) + 1
<1>1. /\ c \in Clients /\ a \in Seq(Times) /\ requests[c] \subseteq DOMAIN a
      /\ now \in Times /\ pc[t] = "add" /\ mutex = t
    BY DEF Add, TypeOK, Locked
<1>2. /\ admitted' = [admitted EXCEPT ![c] = Append(a, now)]
      /\ requests' = [requests EXCEPT ![c] = requests[c] \cup {n}]
      /\ UNCHANGED <<now, client>>
    BY DEF Add
<1>3. \A u \in Threads : pc'[u] = "idle"
    <2> SUFFICES ASSUME NEW u \in Threads PROVE pc'[u] = "idle"
        OBVIOUS
    <2>1. CASE u = t
        BY <2>1 DEF Add, TypeOK
    <2>2. CASE u # t
        BY <1>1, <2>2, OthersIdle DEF Add, TypeOK
    <2> QED
        BY <2>1, <2>2
<1>4. TypeOK'
    BY <1>1, <1>2 DEF Add, TypeOK, PcSet
<1>5. Kept'
    <2> SUFFICES ASSUME NEW d \in Clients, NEW i \in DOMAIN admitted'[d],
                        admitted'[d][i] \in Recent'
                 PROVE  i \in requests'[d]
        BY DEF Kept
    <2>1. CASE d # c
        BY <1>2, <2>1 DEF Kept, Recent, TypeOK
    <2>2. CASE d = c /\ i = n
        BY <1>1, <1>2, <2>2 DEF TypeOK
    <2>3. CASE d = c /\ i # n
        <3>1. i \in DOMAIN a /\ admitted'[d][i] = a[i]
            BY <1>1, <1>2, <2>3 DEF TypeOK
        <3> QED
            BY <1>1, <1>2, <2>3, <3>1 DEF Kept, Recent, TypeOK
    <2> QED
        BY <2>1, <2>2, <2>3
<1>6. Locked' /\ Room'
    BY <1>3 DEF Locked, Room
<1>7. WindowMax'
    <2> SUFFICES ASSUME NEW d \in Clients, NEW T \in Times
                 PROVE  CountIn(d, DOMAIN admitted[d], (T - Window + 1) .. T)'
                            <= MaxPerWindow
        BY DEF WindowMax
    <2> DEFINE S == (T - Window + 1) .. T
    <2>1. CASE d # c
        <3>1. admitted'[d] = admitted[d]
            BY <1>1, <1>2, <2>1 DEF TypeOK
        <3> QED
            BY <3>1 DEF WindowMax, CountIn
    <2>2. CASE d = c
        <3>1. CountIn(d, DOMAIN admitted[d], S)' = StampsIn(Append(a, now), S)
            BY <1>1, <1>2, <2>2 DEF CountIn, StampsIn, TypeOK
        <3>2. CountIn(c, DOMAIN a, S) = StampsIn(a, S)
            BY DEF CountIn, StampsIn
        <3>3. StampsIn(a, S) \in Nat
            <4>1. IsFiniteSet({i \in DOMAIN a : a[i] \in S})
                BY <1>1, EntriesFinite, Zenon
            <4> QED
                BY <4>1, FS_CardinalityType DEF StampsIn
        <3>4. StampsIn(Append(a, now), S) =
                  IF now \in S THEN StampsIn(a, S) + 1 ELSE StampsIn(a, S)
            BY <1>1, AppendCount
        <3>5. StampsIn(a, S) <= MaxPerWindow
            BY <1>1, <3>2 DEF WindowMax
        <3>6. now \in S => StampsIn(a, S) < MaxPerWindow
            BY <1>1, <3>2, WindowBeforePush DEF Room
        <3>7. StampsIn(Append(a, now), S) <= MaxPerWindow
            BY <3>3, <3>4, <3>5, <3>6, SlidingWindowAssumption
        <3> QED
            BY <3>1, <3>7
    <2> QED
        BY <2>1, <2>2
<1> QED
    BY <1>4, <1>5, <1>6, <1>7

-----------------------------------------------------------------------------
(* Every step of the limiter, and every stutter, keeps IInv.               *)
LEMMA NextIInv == IInv /\ [Next]_vars => IInv'
<1> SUFFICES ASSUME IInv, [Next]_vars PROVE IInv'
    OBVIOUS
<1>1. CASE Tick
    BY <1>1, TickIInv
<1>2. CASE CleanupOldRequests
    BY <1>2, CleanupIInv
<1>3. ASSUME NEW t \in Threads, NEW c \in Clients, Enter(t, c) PROVE IInv'
    BY <1>3, EnterIInv
<1>4. ASSUME NEW t \in Threads, Check(t) PROVE IInv'
    BY <1>4, CheckIInv
<1>5. ASSUME NEW t \in Threads, Add(t) PROVE IInv'
    BY <1>5, AddIInv
<1>6. CASE UNCHANGED vars
    BY <1>6 DEF vars, IInv, TypeOK, Kept, Locked, Room, WindowMax, CountIn, Recent
<1> QED
    BY <1>1, <1>2, <1>3, <1>4, <1>5, <1>6 DEF Next

(* SlidingWindowRateLimiter::is_allowed never admits more than            *)
(* max_requests_per_window_ requests of a client within window_size, for  *)
(* any number of threads and clients, any limit, window and clock bound,  *)
(* though the clock moves between get_request_count and add_request.      *)
THEOREM WindowMaxHolds == Spec => []WindowMax
<1>1. Init => IInv
    BY InitIInv
<1>2. IInv /\ [Next]_vars => IInv'
    BY NextIInv
<1>3. IInv => WindowMax
    BY DEF IInv
<1> QED
    BY <1>1, <1>2, <1>3, PTL DEF Spec

=============================================================================
