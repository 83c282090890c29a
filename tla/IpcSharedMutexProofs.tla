------------------------ MODULE IpcSharedMutexProofs ------------------------
(***************************************************************************)
(* IpcSharedMutex for any processes, threads and number of reader cells,   *)
(* whichever process dies at whichever store and however leases end:       *)
(* writers inside their lease are alone, and the cells name exactly the    *)
(* threads that hold the lock.                                             *)
(***************************************************************************)
EXTENDS IpcSharedMutex, TLAPS

Living == {t \in Threads : Alive(t)}

\* The dead hold nothing.
DeadLetGo == \A t \in Threads : ~Alive(t) => holds[t] = {}

\* A cell that names a living thread names a holder, whose lease runs or who
\* is late; what is left of other owners names nobody.
CellsNameHolders ==
  \A t \in Living, p \in Places : Owns(t, cells[p]) =>
    /\ ModeOf(p) \in holds[t]
    /\ cells[p].lease = "runs" \/ <<t, ModeOf(p)>> \in late

HoldersNamed ==
  \A t \in Living, m \in Modes : InTime(t, m) =>
    \E p \in Places : ModeOf(p) = m /\ Owns(t, cells[p])

OneCellEach ==
  \A t \in Living, p, q \in Places :
    Owns(t, cells[p]) /\ Owns(t, cells[q]) /\ ModeOf(p) = ModeOf(q) => p = q

\* While the writer's cell names a living thread no reader cell names another,
\* late or not: a late owner that refreshes in time is on its own again.
WriterCellAlone ==
  \A t, u \in Living, p \in Places :
    Owns(t, cells[0]) /\ Owns(u, cells[p]) => t = u

Ownership ==
  DeadLetGo /\ CellsNameHolders /\ HoldersNamed /\ OneCellEach /\ WriterCellAlone

IInv == TypeOK /\ Ownership

-----------------------------------------------------------------------------
(* Cells and the threads they name *)

Cell == [tag : Procs \cup {None}, tid : Nat, lease : Leases]
Table == [Places -> Cell]

\* Process and thread id together name one thread.
LEMMA Names ==
  ASSUME NEW t \in Threads
  PROVE  /\ Mine(t) \in Cell /\ Owns(t, Mine(t)) /\ Free \in Cell
         /\ Mine(t).lease = "runs" /\ Mine(t).tag # None
         /\ ProcOf[t] \in Procs /\ TidOf[t] \in Nat \ {0}
         /\ \A u \in Threads : \A c : Owns(t, c) /\ Owns(u, c) => u = t
         /\ \A u \in Threads : Owns(u, Mine(t)) => u = t
         /\ \A c : Owns(t, c) => c.tag # None
BY IpcSharedMutexAssumption DEF Mine, Owns, Cell, Leases, Free

LEMMA PlaceModes ==
  /\ 0 \in Places /\ ModeOf(0) = "exclusive"
  /\ \A p \in Places : ModeOf(p) \in Modes
  /\ \A p \in Places : ModeOf(p) = "exclusive" <=> p = 0
  /\ \A p \in Places : p \in Slots <=> p # 0
  /\ \A p \in Slots : p \in Places /\ ModeOf(p) = "shared"
BY IpcSharedMutexAssumption DEF Places, Slots, ModeOf, Modes

\* Whatever store of a clearing is the last one, the cell names no new owner.
LEMMA ClearingNames ==
  ASSUME NEW c \in Cell, NEW d \in Clearing(c)
  PROVE  /\ d \in Cell
         /\ \A u \in Threads : Owns(u, d) => Owns(u, c)
<1>1. \A u \in Threads : TidOf[u] # 0 /\ ProcOf[u] # None
  BY Names, IpcSharedMutexAssumption
<1>2. /\ c.tag \in Procs \cup {None} /\ c.tid \in Nat
      /\ c = [tag |-> c.tag, tid |-> c.tid, lease |-> c.lease]
  BY DEF Cell
<1>3. CASE d = [c EXCEPT !.lease = "zero"]
  BY <1>2, <1>3 DEF Cell, Owns, Leases
<1>4. CASE d = [c EXCEPT !.lease = "zero", !.tid = 0]
  BY <1>1, <1>2, <1>4 DEF Cell, Owns, Leases
<1>5. CASE d = Free
  BY <1>1, <1>5, Names DEF Owns, Free, Cell, Leases
<1> QED
  BY <1>3, <1>4, <1>5 DEF Clearing

\* What a cell that is being taken names: its taker, or nobody new.
LEMMA TakingNames ==
  ASSUME NEW c \in Cell, NEW t \in Threads, NEW d \in Taking(t, c)
  PROVE  d \in Cell /\ d.tag = ProcOf[t]
<1>1. ProcOf[t] \in Procs /\ TidOf[t] \in Nat
  BY Names
<1> QED
  BY <1>1 DEF Taking, Cell, Mine, Leases

-----------------------------------------------------------------------------
(* What happens to the other owners' cells *)

\* The threads of S keep their cells in `now`, but for the late ones, who may
\* lose theirs; and no other cell comes to name them.
Kept(now, S) ==
  \A u \in S, p \in Places :
    /\ Owns(u, now[p]) => /\ Owns(u, cells[p])
                          /\ now[p].lease = "runs" \/ <<u, ModeOf(p)>> \in late
    /\ Owns(u, cells[p]) /\ <<u, ModeOf(p)>> \notin late => Owns(u, now[p])

\* The living outside a process.
Outside(proc) == {u \in Living : ProcOf[u] # proc}

\* Only the dead and the late lose their cells when stale cells are dropped.
LEMMA CleanedKept ==
  ASSUME IInv, NEW n
  PROVE  CleanedBefore(n) \in Table /\ Kept(CleanedBefore(n), Living)
<1>1. cells \in Table /\ Free \in Cell
  BY DEF IInv, Ownership, TypeOK, Table, Cell, Free, Leases
<1>2. CleanedBefore(n) \in Table
  BY <1>1 DEF CleanedBefore, Table
<1>3. ASSUME NEW u \in Living, NEW p \in Places PROVE ~Owns(u, Free)
  BY <1>3, IpcSharedMutexAssumption DEF Owns, Free, Living
<1>4. ASSUME NEW u \in Living, NEW p \in Places, Owns(u, cells[p]), tag_is_stale(cells[p])
      PROVE  <<u, ModeOf(p)>> \in late
  BY <1>4 DEF tag_is_stale, Owns, Living, Alive, IInv, Ownership, CellsNameHolders
<1>5. \A p \in Places :
        \/ CleanedBefore(n)[p] = cells[p]
        \/ tag_is_stale(cells[p]) /\ CleanedBefore(n)[p] = Free
  BY DEF CleanedBefore
<1> QED
  BY <1>2, <1>3, <1>4, <1>5 DEF Kept, IInv, Ownership, CellsNameHolders

\* So it is when the process that drops them dies at one of the stores.
LEMMA PartlyCleanedKept ==
  ASSUME IInv, NEW now \in PartlyCleaned
  PROVE  now \in Table /\ Kept(now, Living)
<1>1. CASE now = cells
  BY <1>1 DEF IInv, Ownership, TypeOK, Table, Cell, Kept, CellsNameHolders
<1>2. CASE now # cells
  <2>0. PICK p \in Places :
          /\ tag_is_stale(cells[p])
          /\ \E c \in Clearing(cells[p]) : now = [CleanedBefore(p) EXCEPT ![p] = c]
    BY <1>2 DEF PartlyCleaned
  <2>1. PICK c \in Clearing(cells[p]) : now = [CleanedBefore(p) EXCEPT ![p] = c]
    BY <2>0
  <2>2. CleanedBefore(p) \in Table /\ Kept(CleanedBefore(p), Living)
    BY CleanedKept
  <2>3. cells[p] \in Cell
    BY DEF IInv, Ownership, TypeOK, Cell
  <2>4. c \in Cell /\ \A u \in Threads : Owns(u, c) => Owns(u, cells[p])
    BY <2>3, ClearingNames
  <2>5. now \in Table /\ \A q \in Places : now[q] = IF q = p THEN c ELSE CleanedBefore(p)[q]
    BY <2>1, <2>2, <2>4 DEF Table
  <2>6. ASSUME NEW u \in Living, Owns(u, cells[p]) PROVE <<u, ModeOf(p)>> \in late
    BY <2>0, <2>6 DEF tag_is_stale, Owns, Living, Alive, IInv, Ownership, CellsNameHolders
  <2>7. ASSUME NEW u \in Living, NEW q \in Places
        PROVE  /\ Owns(u, now[q]) => /\ Owns(u, cells[q])
                                     /\ now[q].lease = "runs" \/ <<u, ModeOf(q)>> \in late
               /\ Owns(u, cells[q]) /\ <<u, ModeOf(q)>> \notin late => Owns(u, now[q])
    <3>1. CASE q = p
      BY <2>4, <2>5, <2>6, <3>1 DEF Living
    <3>2. CASE q # p
      BY <2>2, <2>5, <3>2 DEF Kept
    <3> QED
      BY <3>1, <3>2
  <2> QED
    BY <2>5, <2>7 DEF Kept
<1> QED
  BY <1>1, <1>2

\* Nobody else is disturbed by a process that dies while it takes a cell that
\* is free or its thread's own ...
LEMMA PartlyTakenKept ==
  ASSUME NEW t \in Threads, NEW now \in Table, Kept(now, Living), NEW p \in Places,
         now[p].tag = None \/ Owns(t, now[p]), NEW left \in PartlyTaken(t, now, p)
  PROVE  left \in Table /\ Kept(left, Outside(ProcOf[t]))
<1>1. PICK c \in Taking(t, now[p]) : left = [now EXCEPT ![p] = c]
  BY DEF PartlyTaken
<1>2. c \in Cell /\ c.tag = ProcOf[t]
  BY TakingNames DEF Table
<1>3. left \in Table /\ \A q \in Places : left[q] = IF q = p THEN c ELSE now[q]
  BY <1>1, <1>2 DEF Table
<1>4. ASSUME NEW u \in Outside(ProcOf[t]) PROVE ~Owns(u, c) /\ ~Owns(u, now[p])
  BY <1>2, Names DEF Outside, Living, Owns
<1> QED
  BY <1>3, <1>4 DEF Kept, Outside

\* ... or gives up a cell of its thread.
LEMMA PartlyClearedKept ==
  ASSUME IInv, NEW t \in Threads, NEW p \in Places, Owns(t, cells[p]),
         NEW left \in PartlyCleared(p)
  PROVE  left \in Table /\ Kept(left, Outside(ProcOf[t]))
<1>1. cells \in Table /\ cells[p] \in Cell
  BY DEF IInv, Ownership, TypeOK, Table, Cell
<1>2. CASE left = cells
  BY <1>1, <1>2 DEF Kept, IInv, Ownership, CellsNameHolders, Outside
<1>3. CASE left # cells
  <2>1. PICK c \in Clearing(cells[p]) : left = [cells EXCEPT ![p] = c]
    BY <1>3 DEF PartlyCleared
  <2>2. c \in Cell /\ \A u \in Threads : Owns(u, c) => Owns(u, cells[p])
    BY <1>1, ClearingNames
  <2>3. left \in Table /\ \A q \in Places : left[q] = IF q = p THEN c ELSE cells[q]
    BY <1>1, <2>1, <2>2 DEF Table
  <2>4. ASSUME NEW u \in Outside(ProcOf[t]) PROVE ~Owns(u, c) /\ ~Owns(u, cells[p])
    BY <2>2 DEF Outside, Living, Owns
  <2> QED
    BY <2>3, <2>4 DEF Kept, Outside, IInv, Ownership, CellsNameHolders
<1> QED
  BY <1>2, <1>3

-----------------------------------------------------------------------------
(* The kinds of step *)

LEMMA Initially == Init => IInv
<1> SUFFICES ASSUME Init PROVE IInv
  OBVIOUS
<1>1. \A t \in Threads : ~Owns(t, Free)
  BY IpcSharedMutexAssumption DEF Owns, Free
<1>2. TypeOK
  BY IpcSharedMutexAssumption DEF Init, TypeOK, Free, Leases
<1> QED
  BY <1>1, <1>2 DEF Init, IInv, Ownership, DeadLetGo, CellsNameHolders, HoldersNamed, OneCellEach,
                    WriterCellAlone, InTime, Living

\* A step after which everybody's holds are as before, while stale cells may
\* have been dropped.
LEMMA KeptStep ==
  ASSUME IInv, cells' \in Table, Kept(cells', Living), UNCHANGED <<alive, holds, late>>
  PROVE  Ownership'
<1>1. Living' = Living
  BY DEF Living, Alive
<1>2. DeadLetGo' /\ CellsNameHolders'
  BY <1>1 DEF IInv, Ownership, DeadLetGo, CellsNameHolders, Kept, Alive
<1>3. HoldersNamed'
  BY <1>1 DEF IInv, Ownership, HoldersNamed, InTime, Kept
<1>4. OneCellEach' /\ WriterCellAlone'
  BY <1>1, PlaceModes DEF IInv, Ownership, OneCellEach, WriterCellAlone, Kept
<1> QED
  BY <1>2, <1>3, <1>4 DEF Ownership

\* A process dies: what the others had they keep.
LEMMA BuryStep ==
  ASSUME IInv, NEW proc, cells' \in Table, Kept(cells', Outside(proc)), Bury(proc)
  PROVE  Ownership'
<1>1. Living' = Outside(proc) /\ Living' \subseteq Living
  BY DEF Living, Alive, Bury, Outside
<1>2. /\ \A u \in Threads : holds'[u] = IF ProcOf[u] = proc THEN {} ELSE holds[u]
      /\ \A u \in Outside(proc) : holds'[u] = holds[u]
  BY DEF Bury, Outside, Living
<1>7. \A u \in Outside(proc), m \in Modes : <<u, m>> \in late' <=> <<u, m>> \in late
  <2> SUFFICES ASSUME NEW u \in Outside(proc), NEW m \in Modes
               PROVE  <<u, m>> \in late' <=> <<u, m>> \in late
    OBVIOUS
  <2>1. ProcOf[<<u, m>>[1]] # proc
    BY DEF Outside
  <2>2. late' = {h \in late : ProcOf[h[1]] # proc}
    BY DEF Bury
  <2> QED
    BY <2>1, <2>2
<1>3. DeadLetGo'
  BY <1>2 DEF IInv, Ownership, DeadLetGo, Alive, Bury
<1>4. CellsNameHolders'
  BY <1>1, <1>2, <1>7, PlaceModes DEF IInv, Ownership, CellsNameHolders, Kept
<1>5. HoldersNamed'
  BY <1>1, <1>2, <1>7 DEF IInv, Ownership, HoldersNamed, InTime, Kept
<1>6. OneCellEach' /\ WriterCellAlone'
  BY <1>1, PlaceModes DEF IInv, Ownership, OneCellEach, WriterCellAlone, Kept
<1> QED
  BY <1>3, <1>4, <1>5, <1>6 DEF Ownership

\* A thread gets a cell that is free or its own, where no other stands against it.
LEMMA GrantStep ==
  ASSUME IInv, NEW t \in Living, NEW p \in Places, NEW now \in Table, Kept(now, Living),
         now[p].tag = None \/ Owns(t, now[p]),
         p = 0 => \A q \in Slots : now[q].tag = None \/ Owns(t, now[q]),
         p # 0 => now[0].tag = None \/ Owns(t, now[0]),
         \A q \in Places : ModeOf(q) = ModeOf(p) /\ Owns(t, now[q]) => q = p,
         cells' = [now EXCEPT ![p] = Mine(t)], UNCHANGED alive, Granted(t, ModeOf(p))
  PROVE  Ownership'
<1>1. Living' = Living /\ Living \subseteq Threads /\ t \in Threads
  BY DEF Living, Alive
<1>2. \A q \in Places : cells'[q] = IF q = p THEN Mine(t) ELSE now[q]
  BY DEF Table
<1>3. /\ \A u \in Threads, m \in Modes :
           m \in holds'[u] <=> m \in holds[u] \/ (u = t /\ m = ModeOf(p))
      /\ \A u \in Threads, m \in Modes :
           <<u, m>> \in late' <=> <<u, m>> \in late /\ ~(u = t /\ m = ModeOf(p))
      /\ \A u \in Threads : u # t => holds'[u] = holds[u]
  BY DEF Granted, IInv, Ownership, TypeOK
<1>4. \A u \in Living, q \in Places : Owns(u, cells'[q]) =>
        \/ u = t /\ q = p
        \/ q # p /\ Owns(u, now[q]) /\ Owns(u, cells[q])
  <2> SUFFICES ASSUME NEW u \in Living, NEW q \in Places, Owns(u, cells'[q])
               PROVE  (u = t /\ q = p) \/ (q # p /\ Owns(u, now[q]) /\ Owns(u, cells[q]))
    OBVIOUS
  <2>1. CASE q = p
    BY <1>1, <1>2, <2>1, Names
  <2>2. CASE q # p
    BY <1>2, <2>2 DEF Kept
  <2> QED
    BY <2>1, <2>2
<1>5. \A u \in Living : Owns(u, now[p]) => u = t
  BY <1>1, Names
<1>6. DeadLetGo'
  BY <1>1, <1>3 DEF IInv, Ownership, DeadLetGo, Alive, Living
<1>7. CellsNameHolders'
  <2> SUFFICES ASSUME NEW u \in Living, NEW q \in Places, Owns(u, cells'[q])
               PROVE  /\ ModeOf(q) \in holds'[u]
                      /\ cells'[q].lease = "runs" \/ <<u, ModeOf(q)>> \in late'
    BY <1>1 DEF CellsNameHolders
  <2>1. CASE u = t /\ q = p
    BY <1>1, <1>2, <1>3, <2>1, PlaceModes, Names
  <2>2. CASE q # p /\ Owns(u, now[q]) /\ Owns(u, cells[q])
    <3>1. ~(u = t /\ ModeOf(q) = ModeOf(p))
      BY <2>2
    <3> QED
      BY <1>1, <1>2, <1>3, <2>2, <3>1, PlaceModes DEF Kept, IInv, Ownership, CellsNameHolders
  <2> QED
    BY <1>4, <2>1, <2>2
<1>8. HoldersNamed'
  <2> SUFFICES ASSUME NEW u \in Living, NEW m \in Modes, m \in holds'[u], <<u, m>> \notin late'
               PROVE  \E q \in Places : ModeOf(q) = m /\ Owns(u, cells'[q])
    BY <1>1 DEF HoldersNamed, InTime
  <2>1. CASE u = t /\ m = ModeOf(p)
    BY <1>1, <1>2, <2>1, Names
  <2>2. CASE ~(u = t /\ m = ModeOf(p))
    <3>1. m \in holds[u] /\ <<u, m>> \notin late
      BY <1>1, <1>3, <2>2
    <3>2. PICK q \in Places : ModeOf(q) = m /\ Owns(u, cells[q])
      BY <3>1 DEF IInv, Ownership, HoldersNamed, InTime
    <3>3. Owns(u, now[q])
      BY <3>1, <3>2 DEF Kept
    <3>4. q # p
      BY <1>5, <2>2, <3>2, <3>3
    <3> QED
      BY <1>2, <3>2, <3>3, <3>4
  <2> QED
    BY <2>1, <2>2
<1>9. OneCellEach'
  <2> SUFFICES ASSUME NEW u \in Living, NEW q \in Places, NEW r \in Places,
                      Owns(u, cells'[q]), Owns(u, cells'[r]), ModeOf(q) = ModeOf(r)
               PROVE  q = r
    BY <1>1 DEF OneCellEach
  <2> QED
    BY <1>4 DEF IInv, Ownership, OneCellEach
<1>10. WriterCellAlone'
  <2> SUFFICES ASSUME NEW u \in Living, NEW v \in Living, NEW q \in Places,
                      Owns(u, cells'[0]), Owns(v, cells'[q])
               PROVE  u = v
    BY <1>1 DEF WriterCellAlone
  <2>1. CASE p = 0
    <3>1. u = t
      BY <1>4, <2>1, PlaceModes
    <3>2. CASE q = 0
      BY <1>4, <2>1, <3>1, <3>2
    <3>3. CASE q # 0
      <4>1. Owns(v, now[q]) /\ q \in Slots
        BY <1>4, <2>1, <3>3, PlaceModes
      <4>2. Owns(t, now[q])
        BY <1>1, <2>1, <4>1, Names
      <4> QED
        BY <1>1, <3>1, <4>1, <4>2, Names
    <3> QED
      BY <3>2, <3>3
  <2>2. CASE p # 0
    <3>1. Owns(u, now[0]) /\ Owns(u, cells[0])
      BY <1>4, <2>2, PlaceModes
    <3>2. u = t
      BY <1>1, <2>2, <3>1, Names
    <3> QED
      BY <1>4, <3>1, <3>2 DEF IInv, Ownership, WriterCellAlone
  <2> QED
    BY <2>1, <2>2
<1> QED
  BY <1>6, <1>7, <1>8, <1>9, <1>10 DEF Ownership

\* The cell that unlock and the refreshes work on is the only one.
LEMMA TheOnlyCell ==
  ASSUME IInv, NEW t \in Living, NEW m \in Modes
  PROVE  /\ First(Registered(t, m)) = Registered(t, m)
         /\ \A p \in Places : p \in Registered(t, m) <=> ModeOf(p) = m /\ Owns(t, cells[p])
         /\ \A p, q \in Registered(t, m) : p = q
<1>1. \A p, q \in Registered(t, m) : p = q
  BY DEF IInv, Ownership, OneCellEach, Registered
<1>2. \A p \in Registered(t, m) : p <= p
  BY IpcSharedMutexAssumption DEF Registered, Places
<1> QED
  BY <1>1, <1>2 DEF First, Registered

LEMMA UnlockStep ==
  ASSUME IInv, NEW t \in Living, NEW m \in Modes, UNCHANGED alive,
         cells' = [p \in Places |-> IF p \in Registered(t, m) THEN Free ELSE cells[p]],
         holds' = [holds EXCEPT ![t] = @ \ {m}], late' = late \ {<<t, m>>}
  PROVE  Ownership'
<1>1. Living' = Living /\ Living \subseteq Threads
  BY DEF Living, Alive
<1>2. \A u \in Living, q \in Places : Owns(u, cells'[q]) <=>
        Owns(u, cells[q]) /\ ~(u = t /\ ModeOf(q) = m)
  <2> SUFFICES ASSUME NEW u \in Living, NEW q \in Places
               PROVE  Owns(u, cells'[q]) <=> Owns(u, cells[q]) /\ ~(u = t /\ ModeOf(q) = m)
    OBVIOUS
  <2>1. ~Owns(u, Free)
    BY <1>1, IpcSharedMutexAssumption DEF Owns, Free
  <2>2. q \in Registered(t, m) <=> ModeOf(q) = m /\ Owns(t, cells[q])
    BY TheOnlyCell
  <2>3. Owns(u, cells[q]) /\ Owns(t, cells[q]) => u = t
    BY <1>1, Names
  <2> QED
    BY <2>1, <2>2, <2>3
<1>3. \A q \in Places : cells'[q] = cells[q] \/ \A u \in Living : ~Owns(u, cells'[q])
  BY <1>1, IpcSharedMutexAssumption DEF Owns, Free
<1>4. /\ \A u \in Threads, n \in Modes : n \in holds'[u] <=> n \in holds[u] /\ ~(u = t /\ n = m)
      /\ \A u \in Threads, n \in Modes : <<u, n>> \in late' <=> <<u, n>> \in late /\ ~(u = t /\ n = m)
      /\ \A u \in Threads : holds'[u] \subseteq holds[u]
  BY DEF IInv, Ownership, TypeOK
<1>5. DeadLetGo'
  BY <1>1, <1>4 DEF IInv, Ownership, DeadLetGo, Alive, Living
<1>6. CellsNameHolders'
  BY <1>1, <1>2, <1>3, <1>4, PlaceModes DEF IInv, Ownership, CellsNameHolders
<1>7. HoldersNamed'
  BY <1>1, <1>2, <1>4 DEF IInv, Ownership, HoldersNamed, InTime
<1>8. OneCellEach' /\ WriterCellAlone'
  BY <1>1, <1>2, PlaceModes DEF IInv, Ownership, OneCellEach, WriterCellAlone
<1> QED
  BY <1>5, <1>6, <1>7, <1>8 DEF Ownership

LEMMA RefreshStep ==
  ASSUME IInv, NEW t \in Living, NEW m \in Modes, UNCHANGED <<alive, holds>>, m \in holds[t],
         cells' = [p \in Places |-> IF p \in Registered(t, m) THEN Mine(t) ELSE cells[p]],
         late' = IF Registered(t, m) = {} THEN late ELSE late \ {<<t, m>>}
  PROVE  Ownership'
<1>1. Living' = Living /\ Living \subseteq Threads
  BY DEF Living, Alive
<1>2. \A u \in Living, q \in Places : Owns(u, cells'[q]) <=> Owns(u, cells[q])
  <2> SUFFICES ASSUME NEW u \in Living, NEW q \in Places
               PROVE  Owns(u, cells'[q]) <=> Owns(u, cells[q])
    OBVIOUS
  <2>1. CASE q \in Registered(t, m)
    <3>1. cells'[q] = Mine(t) /\ Owns(t, cells[q])
      BY <2>1, TheOnlyCell
    <3> QED
      BY <1>1, <3>1, Names
  <2>2. CASE q \notin Registered(t, m)
    BY <2>2
  <2> QED
    BY <2>1, <2>2
<1>3. \A u \in Threads, n \in Modes :
        <<u, n>> \in late' <=>
          <<u, n>> \in late /\ ~(u = t /\ n = m /\ Registered(t, m) # {})
  OBVIOUS
<1>4. \A q \in Places : /\ q \in Registered(t, m) => cells'[q].lease = "runs"
                        /\ q \notin Registered(t, m) => cells'[q] = cells[q]
  BY <1>1, Names
<1>5. DeadLetGo'
  BY <1>1 DEF IInv, Ownership, DeadLetGo, Alive, Living
<1>6. CellsNameHolders'
  <2> SUFFICES ASSUME NEW u \in Living, NEW q \in Places, Owns(u, cells[q])
               PROVE  /\ ModeOf(q) \in holds[u]
                      /\ cells'[q].lease = "runs" \/ <<u, ModeOf(q)>> \in late'
    BY <1>1, <1>2 DEF CellsNameHolders
  <2>1. ModeOf(q) \in holds[u] /\ (cells[q].lease = "runs" \/ <<u, ModeOf(q)>> \in late)
    BY DEF IInv, Ownership, CellsNameHolders
  <2>2. CASE q \in Registered(t, m)
    BY <1>4, <2>1, <2>2
  <2>3. CASE q \notin Registered(t, m)
    <3>1. ~(u = t /\ ModeOf(q) = m)
      BY <2>3, TheOnlyCell
    <3> QED
      BY <1>1, <1>3, <1>4, <2>1, <2>3, <3>1, PlaceModes
  <2> QED
    BY <2>2, <2>3
<1>7. HoldersNamed'
  <2> SUFFICES ASSUME NEW u \in Living, NEW n \in Modes, n \in holds[u], <<u, n>> \notin late'
               PROVE  \E q \in Places : ModeOf(q) = n /\ Owns(u, cells[q])
    BY <1>1, <1>2 DEF HoldersNamed, InTime
  <2>1. CASE <<u, n>> \notin late
    BY <2>1 DEF IInv, Ownership, HoldersNamed, InTime
  <2>2. CASE <<u, n>> \in late
    <3>1. u = t /\ n = m /\ Registered(t, m) # {}
      BY <1>1, <1>3, <2>2
    <3> QED
      BY <3>1 DEF Registered
  <2> QED
    BY <2>1, <2>2
<1>8. OneCellEach' /\ WriterCellAlone'
  BY <1>1, <1>2, PlaceModes DEF IInv, Ownership, OneCellEach, WriterCellAlone
<1> QED
  BY <1>5, <1>6, <1>7, <1>8 DEF Ownership

LEMMA LeaseStep ==
  ASSUME IInv, NEW p \in Places, LeaseEnds(p)
  PROVE  Ownership'
<1>1. Living' = Living /\ Living \subseteq Threads
  BY DEF Living, Alive, LeaseEnds
<1>2. \A q \in Places : cells'[q] = IF q = p THEN [cells[p] EXCEPT !.lease = "over"] ELSE cells[q]
  BY DEF LeaseEnds, IInv, Ownership, TypeOK
<1>3. \A u \in Threads, q \in Places : Owns(u, cells'[q]) <=> Owns(u, cells[q])
  <2>1. cells[p] \in Cell
    BY DEF IInv, Ownership, TypeOK, Cell
  <2> QED
    BY <1>2, <2>1 DEF Owns, Cell
<1>4. /\ late \subseteq late'
      /\ \A u \in Living : Owns(u, cells[p]) => <<u, ModeOf(p)>> \in late'
  BY DEF LeaseEnds, Living
<1>5. UNCHANGED <<alive, holds>>
  BY DEF LeaseEnds
<1>6. DeadLetGo'
  BY <1>5 DEF IInv, Ownership, DeadLetGo, Alive
<1>7. CellsNameHolders'
  BY <1>1, <1>2, <1>3, <1>4, <1>5 DEF IInv, Ownership, CellsNameHolders
<1>8. HoldersNamed'
  BY <1>1, <1>3, <1>4, <1>5 DEF IInv, Ownership, HoldersNamed, InTime
<1>9. OneCellEach' /\ WriterCellAlone'
  BY <1>1, <1>3, PlaceModes DEF IInv, Ownership, OneCellEach, WriterCellAlone
<1> QED
  BY <1>6, <1>7, <1>8, <1>9 DEF Ownership

-----------------------------------------------------------------------------
(* The inductive invariant *)

\* Whatever a process leaves that dies in an operation, if the others keep
\* their cells.
LEMMA DieStep ==
  ASSUME IInv, NEW t \in Threads, NEW partial, DiesIn(t, partial),
         \A left \in partial : left \in Table /\ Kept(left, Outside(ProcOf[t]))
  PROVE  IInv'
<1>1. cells' \in Table /\ Kept(cells', Outside(ProcOf[t])) /\ Bury(ProcOf[t]) /\ UNCHANGED ended
  BY DEF DiesIn
<1>2. Ownership'
  BY <1>1, BuryStep
<1>3. TypeOK'
  BY <1>1 DEF IInv, TypeOK, Bury, Table, Cell
<1> QED
  BY <1>2, <1>3 DEF IInv

LEMMA KeptOutside ==
  ASSUME NEW now, Kept(now, Living), NEW proc
  PROVE  Kept(now, Outside(proc))
BY DEF Kept, Outside

LEMMA ExclusiveStep ==
  ASSUME IInv, NEW t \in Threads, do_try_lock_exclusive(t)
  PROVE  IInv'
<1> DEFINE now == cleanup_dead_holders_unsafe
           free == /\ now[0].tag = None \/ Owns(t, now[0])
                   /\ has_no_blocking_reader_unsafe(t, now)
<1>1. now \in Table /\ Kept(now, Living)
  BY CleanedKept DEF cleanup_dead_holders_unsafe
<1>2. t \in Living
  BY DEF do_try_lock_exclusive, Living
<1>3. \/ free /\ Done([now EXCEPT ![0] = Mine(t)]) /\ Granted(t, "exclusive")
      \/ ~free /\ Done(now) /\ Refused
      \/ DiesIn(t, PartlyCleaned \cup IF free THEN PartlyTaken(t, now, 0) ELSE {})
  BY DEF do_try_lock_exclusive
<1> HIDE DEF now
<1>4. CASE free /\ Done([now EXCEPT ![0] = Mine(t)]) /\ Granted(t, "exclusive")
  <2>1. \A q \in Places : ModeOf(q) = ModeOf(0) /\ Owns(t, now[q]) => q = 0
    BY PlaceModes
  <2>2. Ownership'
    BY <1>1, <1>2, <1>4, <2>1, GrantStep, PlaceModes
       DEF Done, has_no_blocking_reader_unsafe
  <2>3. [now EXCEPT ![0] = Mine(t)] \in Table
    BY <1>1, Names DEF Table
  <2>4. TypeOK'
    BY <1>4, <2>3 DEF IInv, TypeOK, Done, Granted, Table, Cell, Modes
  <2> QED
    BY <2>2, <2>4 DEF IInv
<1>5. CASE ~free /\ Done(now) /\ Refused
  <2>1. Ownership'
    BY <1>1, <1>5, KeptStep DEF Done, Refused
  <2> QED
    BY <1>1, <1>5, <2>1 DEF IInv, TypeOK, Done, Refused, Table, Cell
<1>6. CASE DiesIn(t, PartlyCleaned \cup IF free THEN PartlyTaken(t, now, 0) ELSE {})
  <2> DEFINE partial == PartlyCleaned \cup IF free THEN PartlyTaken(t, now, 0) ELSE {}
  <2>1. ASSUME NEW left \in partial
        PROVE  left \in Table /\ Kept(left, Outside(ProcOf[t]))
    <3>1. CASE left \in PartlyCleaned
      BY <3>1, PartlyCleanedKept, KeptOutside
    <3>2. CASE free /\ left \in PartlyTaken(t, now, 0)
      BY <1>1, <3>2, PartlyTakenKept, PlaceModes
    <3> QED
      BY <2>1, <3>1, <3>2
  <2> HIDE DEF partial
  <2>2. DiesIn(t, partial)
    BY <1>6 DEF partial
  <2> QED
    BY <2>1, <2>2, DieStep
<1> QED
  BY <1>3, <1>4, <1>5, <1>6

LEMMA SharedStep ==
  ASSUME IInv, NEW t \in Threads, do_try_lock_shared(t)
  PROVE  IInv'
<1> DEFINE now == cleanup_dead_holders_unsafe
           slot == IF now[0].tag = None \/ Owns(t, now[0]) THEN SlotFor(t, now) ELSE {}
<1>1. now \in Table /\ Kept(now, Living)
  BY CleanedKept DEF cleanup_dead_holders_unsafe
<1>2. t \in Living
  BY DEF do_try_lock_shared, Living
<1>3. \/ \E p \in slot : Done([now EXCEPT ![p] = Mine(t)]) /\ Granted(t, "shared")
      \/ slot = {} /\ Done(now) /\ Refused
      \/ DiesIn(t, PartlyCleaned \cup UNION {PartlyTaken(t, now, p) : p \in slot})
  BY DEF do_try_lock_shared
<1> HIDE DEF now
<1>4. \A p \in slot : /\ p \in Slots
                      /\ now[0].tag = None \/ Owns(t, now[0])
                      /\ now[p].tag = None \/ Owns(t, now[p])
                      /\ \A q \in Slots : Owns(t, now[q]) => Owns(t, now[p])
  BY DEF SlotFor, First
<1> HIDE DEF slot
<1>5. ASSUME NEW p \in slot, Done([now EXCEPT ![p] = Mine(t)]), Granted(t, "shared")
      PROVE  IInv'
  <2>1. p \in Slots /\ p \in Places /\ p # 0 /\ ModeOf(p) = "shared"
    BY <1>4, <1>5, PlaceModes
  <2>2. ASSUME NEW q \in Places, ModeOf(q) = ModeOf(p), Owns(t, now[q])
        PROVE  q = p
    <3>1. Owns(t, now[p])
      BY <1>4, <2>1, <2>2, PlaceModes
    <3>2. Owns(t, cells[p]) /\ Owns(t, cells[q])
      BY <1>1, <1>2, <2>1, <2>2, <3>1 DEF Kept
    <3> QED
      BY <1>2, <2>1, <2>2, <3>2 DEF IInv, Ownership, OneCellEach
  <2>3. Ownership'
    <3>1. /\ now[p].tag = None \/ Owns(t, now[p])
          /\ now[0].tag = None \/ Owns(t, now[0])
      BY <1>4, <1>5
    <3>2. /\ cells' = [now EXCEPT ![p] = Mine(t)]
          /\ UNCHANGED alive
          /\ Granted(t, ModeOf(p))
      BY <1>5, <2>1 DEF Done
    <3> QED
      BY <1>1, <1>2, <2>1, <2>2, <3>1, <3>2, GrantStep
  <2>4. [now EXCEPT ![p] = Mine(t)] \in Table
    BY <1>1, Names DEF Table
  <2>5. TypeOK'
    BY <1>5, <2>4 DEF IInv, TypeOK, Done, Granted, Table, Cell, Modes
  <2> QED
    BY <2>3, <2>5 DEF IInv
<1>6. CASE slot = {} /\ Done(now) /\ Refused
  <2>1. Ownership'
    BY <1>1, <1>6, KeptStep DEF Done, Refused
  <2> QED
    BY <1>1, <1>6, <2>1 DEF IInv, TypeOK, Done, Refused, Table, Cell
<1>7. CASE DiesIn(t, PartlyCleaned \cup UNION {PartlyTaken(t, now, p) : p \in slot})
  <2> DEFINE partial == PartlyCleaned \cup UNION {PartlyTaken(t, now, p) : p \in slot}
  <2>1. ASSUME NEW left \in partial
        PROVE  left \in Table /\ Kept(left, Outside(ProcOf[t]))
    <3>1. CASE left \in PartlyCleaned
      BY <3>1, PartlyCleanedKept, KeptOutside
    <3>2. ASSUME NEW p \in slot, left \in PartlyTaken(t, now, p)
          PROVE  left \in Table /\ Kept(left, Outside(ProcOf[t]))
      BY <1>1, <1>4, <3>2, PartlyTakenKept, PlaceModes
    <3> QED
      BY <2>1, <3>1, <3>2
  <2> HIDE DEF partial
  <2>2. DiesIn(t, partial)
    BY <1>7 DEF partial
  <2> QED
    BY <2>1, <2>2, DieStep
<1> QED
  BY <1>3, <1>5, <1>6, <1>7

LEMMA UnlockingStep ==
  ASSUME IInv, NEW t \in Threads, NEW m \in Modes, Unlock(t, m)
  PROVE  IInv'
<1> DEFINE mine == First(Registered(t, m))
<1>1. t \in Living
  BY DEF Unlock, Living
<1>2. mine = Registered(t, m)
  BY <1>1, TheOnlyCell
<1>3. \/ /\ Done([p \in Places |-> IF p \in mine THEN Free ELSE cells[p]])
         /\ holds' = [holds EXCEPT ![t] = @ \ {m}]
         /\ late' = late \ {<<t, m>>}
         /\ UNCHANGED <<want, ended>>
      \/ DiesIn(t, {cells} \cup UNION {PartlyCleared(p) : p \in mine})
  BY DEF Unlock
<1> HIDE DEF mine
<1>4. CASE /\ Done([p \in Places |-> IF p \in mine THEN Free ELSE cells[p]])
           /\ holds' = [holds EXCEPT ![t] = @ \ {m}]
           /\ late' = late \ {<<t, m>>}
           /\ UNCHANGED <<want, ended>>
  <2>1. Ownership'
    BY <1>1, <1>2, <1>4, UnlockStep DEF Done
  <2>2. TypeOK'
    BY <1>4, Names DEF IInv, TypeOK, Done, Cell
  <2> QED
    BY <2>1, <2>2 DEF IInv
<1>5. CASE DiesIn(t, {cells} \cup UNION {PartlyCleared(p) : p \in mine})
  <2> DEFINE partial == {cells} \cup UNION {PartlyCleared(p) : p \in mine}
  <2>1. ASSUME NEW left \in partial
        PROVE  left \in Table /\ Kept(left, Outside(ProcOf[t]))
    <3>1. CASE left = cells
      BY <3>1 DEF Kept, IInv, Ownership, CellsNameHolders, Outside, TypeOK, Table, Cell
    <3>2. ASSUME NEW p \in mine, left \in PartlyCleared(p)
          PROVE  left \in Table /\ Kept(left, Outside(ProcOf[t]))
      BY <1>2, <3>2, PartlyClearedKept DEF Registered
    <3> QED
      BY <2>1, <3>1, <3>2
  <2> HIDE DEF partial
  <2>2. DiesIn(t, partial)
    BY <1>5 DEF partial
  <2> QED
    BY <2>1, <2>2, DieStep
<1> QED
  BY <1>3, <1>4, <1>5

\* A step that leaves the cells and the holds alone.
LEMMA QuietStep ==
  ASSUME IInv, UNCHANGED <<cells, alive, holds, late>>
  PROVE  Ownership'
BY DEF IInv, Ownership, DeadLetGo, CellsNameHolders, HoldersNamed, OneCellEach, WriterCellAlone,
       Living, Alive, InTime

LEMMA IInvStep == IInv /\ [Next]_vars => IInv'
<1> SUFFICES ASSUME IInv, [Next]_vars PROVE IInv'
  OBVIOUS
<1>1. ASSUME NEW t \in Threads, NEW m \in Modes, Call(t, m) PROVE IInv'
  BY <1>1, QuietStep DEF Call, IInv, TypeOK
<1>2. ASSUME NEW t \in Threads, NEW m \in Modes, Unlock(t, m) PROVE IInv'
  BY <1>2, UnlockingStep
<1>3. ASSUME NEW t \in Threads, NEW m \in Modes, RefreshLease(t, m) PROVE IInv'
  <2>1. t \in Living
    BY <1>3 DEF RefreshLease, Living
  <2>2. First(Registered(t, m)) = Registered(t, m)
    BY <2>1, TheOnlyCell
  <2>3. /\ cells' = [p \in Places |-> IF p \in Registered(t, m) THEN Mine(t) ELSE cells[p]]
        /\ late' = IF Registered(t, m) = {} THEN late ELSE late \ {<<t, m>>}
        /\ UNCHANGED <<alive, want, holds, ended>> /\ m \in holds[t]
    BY <1>3, <2>2 DEF RefreshLease, Done
  <2>4. Ownership'
    BY <2>1, <2>3, RefreshStep
  <2>5. TypeOK'
    BY <2>3, Names DEF IInv, TypeOK, Cell
  <2> QED
    BY <2>4, <2>5 DEF IInv
<1>4. ASSUME NEW t \in Threads, do_try_lock_exclusive(t) PROVE IInv'
  BY <1>4, ExclusiveStep
<1>5. ASSUME NEW t \in Threads, do_try_lock_shared(t) PROVE IInv'
  BY <1>5, SharedStep
<1>6. ASSUME NEW t \in Threads, GiveUp(t) PROVE IInv'
  BY <1>6, QuietStep DEF GiveUp, IInv, TypeOK
<1>7. ASSUME NEW t \in Threads, cleanup_dead_holders(t) PROVE IInv'
  <2>1. CASE Done(cleanup_dead_holders_unsafe) /\ Refused
    <3>1. cells' \in Table /\ Kept(cells', Living)
      BY <2>1, CleanedKept DEF Done, cleanup_dead_holders_unsafe
    <3>2. Ownership'
      BY <2>1, <3>1, KeptStep DEF Done, Refused
    <3> QED
      BY <2>1, <3>1, <3>2 DEF IInv, TypeOK, Done, Refused, Table, Cell
  <2>2. CASE DiesIn(t, PartlyCleaned)
    BY <2>2, PartlyCleanedKept, KeptOutside, DieStep
  <2> QED
    BY <1>7, <2>1, <2>2 DEF cleanup_dead_holders
<1>8. ASSUME NEW p \in Places, LeaseEnds(p) PROVE IInv'
  <2>1. Ownership'
    BY <1>8, LeaseStep
  <2>2. cells[p] \in Cell /\ [cells[p] EXCEPT !.lease = "over"] \in Cell
    BY DEF IInv, TypeOK, Cell, Leases
  <2>3. cells' \in Table
    BY <1>8, <2>2 DEF LeaseEnds, IInv, TypeOK, Table, Cell
  <2>4. late' \subseteq Threads \X Modes
    BY <1>8, PlaceModes DEF LeaseEnds, IInv, TypeOK
  <2>5. ended' \in 0 .. MaxLate
    BY <1>8, IpcSharedMutexAssumption DEF LeaseEnds, IInv, TypeOK
  <2> QED
    BY <1>8, <2>1, <2>3, <2>4, <2>5 DEF LeaseEnds, IInv, TypeOK, Table, Cell
<1>9. ASSUME NEW proc \in Procs, Crash(proc) PROVE IInv'
  <2>1. cells' \in Table /\ Kept(cells', Outside(proc))
    BY <1>9 DEF Crash, Kept, IInv, Ownership, CellsNameHolders, Outside, TypeOK, Table, Cell
  <2>2. Ownership'
    BY <1>9, <2>1, BuryStep DEF Crash
  <2> QED
    BY <1>9, <2>2 DEF Crash, Bury, IInv, TypeOK
<1>10. CASE UNCHANGED vars
  BY <1>10, QuietStep DEF vars, IInv, TypeOK
<1> QED
  BY <1>1, <1>2, <1>3, <1>4, <1>5, <1>6, <1>7, <1>8, <1>9, <1>10 DEF Next

LEMMA Invariant == Spec => []IInv
BY Initially, IInvStep, PTL DEF Spec

-----------------------------------------------------------------------------
(* The theorems *)

\* The cells, the threads' wishes and what they hold stay in their types.
THEOREM TypeCorrect == Spec => []TypeOK
<1>1. IInv => TypeOK
  BY DEF IInv
<1> QED
  BY <1>1, Invariant, PTL

\* However many processes die between whichever stores, and whoever outstays
\* its lease, two threads inside their leases are readers, or one and the same.
THEOREM WritersExclude == Spec => []WriterAlone
<1>1. IInv => WriterAlone
  <2> SUFFICES ASSUME IInv, NEW t \in Threads, NEW u \in Threads, InTime(t, "exclusive"),
                      InTime(u, "exclusive") \/ InTime(u, "shared")
               PROVE  t = u
    BY DEF WriterAlone
  <2>1. t \in Living /\ u \in Living
    BY DEF IInv, Ownership, DeadLetGo, InTime, Living
  <2>2. Owns(t, cells[0])
    BY <2>1, PlaceModes DEF IInv, Ownership, HoldersNamed, Modes
  <2>3. PICK p \in Places : Owns(u, cells[p])
    BY <2>1 DEF IInv, Ownership, HoldersNamed, Modes
  <2> QED
    BY <2>1, <2>2, <2>3 DEF IInv, Ownership, WriterCellAlone
<1> QED
  BY <1>1, Invariant, PTL

\* A living thread inside its lease is registered once in its mode, and no
\* cell names a living thread that does not hold the lock.
THEOREM RegistrationIsExact == Spec => []RegistrationExact
<1>1. IInv => RegistrationExact
  <2> SUFFICES ASSUME IInv, NEW t \in Threads, Alive(t), NEW m \in Modes
               PROVE  /\ InTime(t, m) => Registered(t, m) # {}
                      /\ \A p, q \in Registered(t, m) : p = q /\ m \in holds[t]
    BY DEF RegistrationExact
  <2>1. t \in Living
    BY DEF Living
  <2>2. InTime(t, m) => Registered(t, m) # {}
    BY <2>1 DEF IInv, Ownership, HoldersNamed, Registered
  <2>3. \A p \in Registered(t, m) : m \in holds[t]
    BY <2>1 DEF IInv, Ownership, CellsNameHolders, Registered
  <2> QED
    BY <2>1, <2>2, <2>3, TheOnlyCell
<1> QED
  BY <1>1, Invariant, PTL
=============================================================================
