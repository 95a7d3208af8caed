---------------------------- MODULE ViewsProofs -----------------------------
(***************************************************************************)
(* Theorems about Live and about Caches.  Of Live: what every change of    *)
(* the realtime state owes to the pages, however many flushes run, and how *)
(* a snapshot settles it.  Of Caches: what Redis keeps is dropped when it  *)
(* is old, and the lobby is sent what the database has.                    *)
(*                                                                         *)
(* The two have MCViews in common, which names the state of Caches C.      *)
(***************************************************************************)
EXTENDS MCViews, Integers, SequenceTheorems, TLAPS

-----------------------------------------------------------------------------
(* The inductive invariant.  A part that the page does not show as it is kept is owed: a  *)
(* flush will read it, and what was sent last will not keep that flush from sending it.   *)

\* A flush will send the board as it is kept now, or already holds it.
BoardComes ==
    \/ "board" \in pending
    \/ \E f \in Flushes : /\ "board" \in flush[f].parts
                          /\ \/ flush[f].at = "reads"
                             \/ flush[f].at = "holds" /\ flush[f].board = kept.board

\* The round is read as the flush sends it.
RoundComes ==
    \/ "round" \in pending
    \/ \E f \in Flushes : "round" \in flush[f].parts /\ flush[f].at \in {"reads", "holds"}

BoardDue(shown) == shown = kept.board \/ (BoardComes /\ last.board # kept.board)

\* While the handler of an end runs, the page shows no round, or the one that was sent last:
\* the handler will clear it.
RoundDue ==
    IF ending THEN view.round = 0 \/ view.round = last.round
    ELSE view.round = kept.round \/ (RoundComes /\ last.round # kept.round)

Types ==
    /\ kept \in [Parts -> Nat] /\ view \in [Parts -> Nat] /\ last \in [Parts -> Nat]
    /\ changes \in Nat /\ pending \subseteq Parts
    /\ flush \in [Flushes -> [at : {"idle", "reads", "holds"}, parts : SUBSET Parts, board : Nat]]
    /\ snapshot \in [at : {"idle", "reads", "holds"}, wanted : BOOLEAN, board : Nat, round : Nat]

\* Versions grow, and nobody has read one that is still to come.
Versions ==
    /\ changes <= MaxChanges /\ kept.board <= changes
    /\ last.board <= kept.board \/ last.board = None
    /\ \A f \in Flushes : flush[f].board <= kept.board

Shown == Joined /\ ~overtaken /\ ~snapshot.wanted => BoardDue(view.board) /\ RoundDue

Held ==
    ~overtaken /\ snapshot.at = "holds" =>
        BoardDue(snapshot.board) /\ (~ending => snapshot.round = kept.round)

\* A board that has changed since a flush read it will be read again.
Followed ==
    ~overtaken => \A f \in Flushes :
        flush[f].at = "holds" /\ "board" \in flush[f].parts =>
            BoardComes \/ flush[f].board = kept.board

IInv ==
    /\ Types /\ Versions
    /\ pending # {} => timer
    /\ snapshot.at = "idle" => ~snapshot.wanted
    /\ Shown /\ Held /\ Followed

-----------------------------------------------------------------------------
(* Records and functions of parts. *)

LEMMA OfParts ==
  ASSUME NEW b \in Nat, NEW r \in Nat
  PROVE  [board |-> b, round |-> r] \in [Parts -> Nat]
  BY DEF Parts

LEMMA NoneIsLater == None = MaxChanges + 1 /\ MaxChanges \in Nat /\ None \in Nat
  BY LiveAssumption DEF None

\* A change that is marked: a flush to come reads it.
LEMMA Marked ==
  ASSUME NEW parts \in SUBSET Parts, Mark(parts), Types, flush' = flush
  PROVE  /\ pending' \in SUBSET Parts /\ timer' = TRUE /\ last' = last
         /\ "board" \in parts => BoardComes'
         /\ "round" \in parts => RoundComes'
         /\ RoundComes => RoundComes'
         /\ kept'.board = kept.board /\ BoardComes => BoardComes'
  BY DEF Mark, Types, BoardComes, RoundComes

-----------------------------------------------------------------------------
(* The handlers. *)

LEMMA BidHeardKeeps ==
  ASSUME IInv, BidHeard
  PROVE  IInv'
  <1>1. Types /\ Versions /\ Shown /\ Held /\ Followed
    BY DEF IInv
  <1>2. /\ changes < MaxChanges /\ changes' = changes + 1
        /\ kept' = [kept EXCEPT !.board = changes'] /\ Mark({"board"})
        /\ UNCHANGED <<flush, snapshot, link, ending, view, overtaken>>
    BY DEF BidHeard, Changes, serverUnchanged
  <1>3. changes \in Nat /\ changes' \in Nat /\ MaxChanges \in Nat
    BY <1>1, <1>2, NoneIsLater DEF Types
  <1>4. kept' \in [Parts -> Nat] /\ kept'.board = changes' /\ kept'.round = kept.round
    BY <1>1, <1>2, <1>3 DEF Types, Parts
  <1>5. /\ pending' \in SUBSET Parts /\ timer' = TRUE /\ last' = last
        /\ BoardComes' /\ (RoundComes => RoundComes')
    <2>1. {"board"} \in SUBSET Parts
      BY DEF Parts
    <2>2. QED
      BY <1>1, <1>2, <2>1, Marked
  <1>6. kept.board \in Nat /\ last.board \in Nat /\ \A f \in Flushes : flush[f].board \in Nat
    BY <1>1 DEF Types, Parts
  <1>7. last'.board # kept'.board
    BY <1>1, <1>2, <1>3, <1>4, <1>5, <1>6, NoneIsLater DEF Versions
  <1>8. Types'
    BY <1>1, <1>2, <1>3, <1>4, <1>5 DEF Types
  <1>9. Versions'
    BY <1>1, <1>2, <1>3, <1>4, <1>5, <1>6 DEF Versions
  <1>10. Shown'
    BY <1>1, <1>2, <1>4, <1>5, <1>7 DEF Shown, BoardDue, RoundDue, Joined, link
  <1>11. Held'
    BY <1>1, <1>2, <1>4, <1>5, <1>7 DEF Held, BoardDue
  <1>12. Followed'
    BY <1>5 DEF Followed
  <1>13. QED
    BY <1>2, <1>5, <1>8, <1>9, <1>10, <1>11, <1>12 DEF IInv

LEMMA RoundHeardKeeps ==
  ASSUME IInv, RoundHeard
  PROVE  IInv'
  <1>1. Types /\ Versions /\ Shown /\ Held /\ Followed
    BY DEF IInv
  <1>2. /\ changes < MaxChanges /\ changes' = changes + 1
        /\ kept' = [kept EXCEPT !.round = changes'] /\ Mark({"round"})
        /\ view' = IF Joined THEN [view EXCEPT !.round = changes'] ELSE view
        /\ overtaken' = (overtaken \/ ending \/ snapshot.at = "holds")
        /\ UNCHANGED <<flush, snapshot, link, ending>>
    BY DEF RoundHeard, Changes, serverUnchanged, Displays
  <1>3. changes \in Nat /\ changes' \in Nat /\ MaxChanges \in Nat
    BY <1>1, <1>2, NoneIsLater DEF Types
  <1>4. kept' \in [Parts -> Nat] /\ kept'.board = kept.board /\ kept'.round = changes'
    BY <1>1, <1>2, <1>3 DEF Types, Parts
  <1>5. /\ pending' \in SUBSET Parts /\ timer' = TRUE /\ last' = last
        /\ (BoardComes => BoardComes')
    <2>1. {"round"} \in SUBSET Parts
      BY DEF Parts
    <2>2. QED
      BY <1>1, <1>2, <1>4, <2>1, Marked
  <1>6. /\ view' \in [Parts -> Nat] /\ view'.board = view.board
        /\ Joined => view'.round = changes'
    BY <1>1, <1>2, <1>3 DEF Types, Parts
  <1>7. kept.board \in Nat
    BY <1>1 DEF Types, Parts
  <1>8. Types'
    BY <1>1, <1>2, <1>3, <1>4, <1>5, <1>6 DEF Types
  <1>9. Versions'
    BY <1>1, <1>2, <1>3, <1>4, <1>5, <1>7 DEF Versions
  <1>10. ~overtaken' => ~overtaken /\ ~ending /\ snapshot.at # "holds"
    BY <1>2
  <1>11. Shown'
    BY <1>1, <1>2, <1>4, <1>5, <1>6, <1>10 DEF Shown, BoardDue, RoundDue, Joined, link
  <1>12. Held'
    BY <1>2, <1>10 DEF Held
  <1>13. Followed'
    BY <1>1, <1>2, <1>4, <1>5, <1>10 DEF Followed
  <1>14. QED
    BY <1>2, <1>5, <1>8, <1>9, <1>11, <1>12, <1>13 DEF IInv

LEMMA EndHeardKeeps ==
  ASSUME IInv, EndHeard
  PROVE  IInv'
  <1>1. Types /\ Versions /\ Shown /\ Held /\ Followed
    BY DEF IInv
  <1>2. /\ changes < MaxChanges /\ changes' = changes + 1 /\ ending' = TRUE
        /\ view' = IF Joined THEN [view EXCEPT !.round = 0] ELSE view
        /\ overtaken' = (overtaken \/ snapshot.at = "holds")
        /\ UNCHANGED <<flush, snapshot, link, kept, pending, timer, last>>
    BY DEF EndHeard, Changes, serverUnchanged, Displays, flushing
  <1>3. changes \in Nat /\ changes' \in Nat /\ MaxChanges \in Nat
    BY <1>1, <1>2, NoneIsLater DEF Types
  <1>4. /\ view' \in [Parts -> Nat] /\ view'.board = view.board
        /\ Joined => view'.round = 0
    BY <1>1, <1>2 DEF Types, Parts
  <1>5. kept.board \in Nat
    BY <1>1 DEF Types, Parts
  <1>6. Types'
    BY <1>1, <1>2, <1>3, <1>4 DEF Types
  <1>7. Versions'
    BY <1>1, <1>2, <1>3, <1>5 DEF Versions
  <1>8. ~overtaken' => ~overtaken /\ snapshot.at # "holds"
    BY <1>2
  <1>9. BoardComes' <=> BoardComes
    BY <1>2 DEF BoardComes
  <1>10. Shown'
    BY <1>1, <1>2, <1>4, <1>8, <1>9 DEF Shown, BoardDue, RoundDue, Joined, link
  <1>11. Held'
    BY <1>2, <1>8 DEF Held
  <1>12. pending' # {} => timer'
    BY <1>2 DEF IInv
  <1>13. snapshot'.at = "idle" => ~snapshot'.wanted
    BY <1>2 DEF IInv
  <1>14. Followed'
    BY <1>1, <1>2, <1>8, <1>9 DEF Followed
  <1>15. QED
    BY <1>6, <1>7, <1>10, <1>11, <1>12, <1>13, <1>14 DEF IInv

LEMMA EndAppliedKeeps ==
  ASSUME IInv, EndApplied
  PROVE  IInv'
  <1>1. Types /\ Versions /\ Shown /\ Held /\ Followed
    BY DEF IInv
  <1>2. /\ ending /\ ending' = FALSE
        /\ kept' = [board |-> changes, round |-> 0] /\ Mark(Parts)
        /\ overtaken' = (overtaken \/ snapshot.at = "holds")
        /\ UNCHANGED <<flush, snapshot, link, changes, view>>
    BY DEF EndApplied, serverUnchanged
  <1>3. changes \in Nat /\ MaxChanges \in Nat
    BY <1>1, NoneIsLater DEF Types
  <1>4. kept' \in [Parts -> Nat] /\ kept'.board = changes /\ kept'.round = 0
    BY <1>2, <1>3, OfParts
  <1>5. /\ pending' \in SUBSET Parts /\ timer' = TRUE /\ last' = last
        /\ BoardComes' /\ RoundComes'
    <2>1. Parts \in SUBSET Parts /\ "board" \in Parts /\ "round" \in Parts
      BY DEF Parts
    <2>2. QED
      BY <1>1, <1>2, <2>1, Marked
  <1>6. /\ kept.board \in Nat /\ last.board \in Nat
        /\ \A f \in Flushes : flush[f].board \in Nat
    BY <1>1 DEF Types, Parts
  <1>7. Types'
    BY <1>1, <1>2, <1>3, <1>4, <1>5 DEF Types
  <1>8. Versions'
    BY <1>1, <1>2, <1>3, <1>4, <1>5, <1>6 DEF Versions
  <1>9. ~overtaken' => ~overtaken /\ snapshot.at # "holds"
    BY <1>2
  <1>10. last.board = changes => kept.board = changes
    BY <1>1, <1>3, <1>6, NoneIsLater DEF Versions
  <1>11. Shown'
    <2> SUFFICES ASSUME Joined', ~overtaken', ~snapshot'.wanted
                 PROVE  BoardDue(view.board)' /\ RoundDue'
      BY <1>2 DEF Shown
    <2>1. Joined /\ ~overtaken /\ ~snapshot.wanted
      BY <1>2, <1>9 DEF Joined, link
    <2>2. BoardDue(view.board) /\ RoundDue
      BY <1>1, <2>1 DEF Shown
    <2>3. last.board # changes \/ view.board = changes
      BY <1>10, <2>2 DEF BoardDue
    <2>4. BoardDue(view.board)'
      BY <1>2, <1>4, <1>5, <2>3 DEF BoardDue
    <2>5. view.round = 0 \/ last.round # 0
      BY <1>2, <2>2 DEF RoundDue
    <2>6. RoundDue'
      BY <1>2, <1>4, <1>5, <2>5 DEF RoundDue
    <2>7. QED
      BY <2>4, <2>6
  <1>12. Held'
    BY <1>2, <1>9 DEF Held
  <1>13. snapshot'.at = "idle" => ~snapshot'.wanted
    BY <1>2 DEF IInv
  <1>14. Followed'
    BY <1>5 DEF Followed
  <1>15. QED
    BY <1>5, <1>7, <1>8, <1>11, <1>12, <1>13, <1>14 DEF IInv

-----------------------------------------------------------------------------
(* Flushes. *)

LEMMA RunOf ==
  ASSUME NEW at, NEW none, NEW zero, NEW new, NEW parts,
         NEW r, r = [at |-> at, parts |-> none, board |-> zero],
         NEW run, run = [r EXCEPT !.at = new, !.parts = parts]
  PROVE  run = [at |-> new, parts |-> parts, board |-> zero]
  OBVIOUS

LEMMA FlushStartsKeeps ==
  ASSUME IInv, NEW f \in Flushes, FlushStarts(f)
  PROVE  IInv'
  <1>1. Types /\ Versions /\ Shown /\ Held /\ Followed
    BY DEF IInv
  <1> DEFINE run == [at |-> "reads", parts |-> pending, board |-> 0]
  <1>2. /\ timer /\ flush[f].at = "idle" /\ timer' = FALSE /\ pending' = {}
        /\ UNCHANGED <<last, kept, changes, ending, snapshot, link, view, overtaken>>
    BY DEF FlushStarts
  <1>3. flush' = [flush EXCEPT ![f] = run]
    <2>1. PICK x : x = [Idle EXCEPT !.at = "reads", !.parts = pending]
                   /\ flush' = [flush EXCEPT ![f] = x]
      BY DEF FlushStarts
    <2>2. Idle = [at |-> "idle", parts |-> {}, board |-> 0]
      BY DEF Idle
    <2>3. x = run
      BY <2>1, <2>2, RunOf, Zenon
    <2>4. QED
      BY <2>1, <2>3
  <1>4. run \in [at : {"idle", "reads", "holds"}, parts : SUBSET Parts, board : Nat]
    BY <1>1 DEF Types
  <1>5. run.at = "reads" /\ run.parts = pending /\ run.board = 0
    OBVIOUS
  <1> HIDE DEF run
  <1>6. /\ flush'[f] = run /\ \A g \in Flushes \ {f} : flush'[g] = flush[g]
        /\ flush' \in [Flushes -> [at : {"idle", "reads", "holds"}, parts : SUBSET Parts,
                                   board : Nat]]
    BY <1>1, <1>3, <1>4 DEF Types
  <1>7. BoardComes => BoardComes'
    BY <1>2, <1>5, <1>6 DEF BoardComes
  <1>8. RoundComes => RoundComes'
    BY <1>2, <1>5, <1>6 DEF RoundComes
  <1>9. Types'
    BY <1>1, <1>2, <1>6 DEF Types
  <1>10. kept.board \in Nat
    BY <1>1 DEF Types, Parts
  <1>11. Versions'
    BY <1>1, <1>2, <1>5, <1>6, <1>10 DEF Versions
  <1>12. Shown'
    BY <1>1, <1>2, <1>7, <1>8 DEF Shown, BoardDue, RoundDue, Joined, link
  <1>13. Held'
    BY <1>1, <1>2, <1>7 DEF Held, BoardDue
  <1>14. snapshot'.at = "idle" => ~snapshot'.wanted
    BY <1>2 DEF IInv
  <1>15. Followed'
    BY <1>1, <1>2, <1>5, <1>6, <1>7 DEF Followed
  <1>16. QED
    BY <1>2, <1>9, <1>11, <1>12, <1>13, <1>14, <1>15 DEF IInv

LEMMA FlushReadsKeeps ==
  ASSUME IInv, NEW f \in Flushes, FlushReads(f)
  PROVE  IInv'
  <1>1. Types /\ Versions /\ Shown /\ Held /\ Followed
    BY DEF IInv
  <1> DEFINE read == IF "board" \in flush[f].parts THEN kept.board ELSE 0
  <1>2. /\ flush[f].at = "reads"
        /\ UNCHANGED <<pending, timer, last, kept, changes, ending, snapshot, link, view, overtaken>>
    BY DEF FlushReads, flushing
  <1>3. flush' = [flush EXCEPT ![f].at = "holds", ![f].board = read]
    BY DEF FlushReads
  <1>4. kept.board \in Nat /\ read \in Nat /\ read <= kept.board
    BY <1>1 DEF Types, Parts
  <1>5. "board" \in flush[f].parts => read = kept.board
    OBVIOUS
  <1> HIDE DEF read
  <1>6. flush[f] \in [at : {"idle", "reads", "holds"}, parts : SUBSET Parts, board : Nat]
    BY <1>1 DEF Types
  <1>7. /\ flush'[f].at = "holds" /\ flush'[f].board = read /\ flush'[f].parts = flush[f].parts
        /\ flush'[f] \in [at : {"idle", "reads", "holds"}, parts : SUBSET Parts, board : Nat]
    BY <1>1, <1>3, <1>4, <1>6 DEF Types
  <1>8. \A g \in Flushes \ {f} : flush'[g] = flush[g]
    BY <1>1, <1>3 DEF Types
  <1>9. flush' \in [Flushes -> [at : {"idle", "reads", "holds"}, parts : SUBSET Parts, board : Nat]]
    BY <1>1, <1>3, <1>7, <1>8 DEF Types
  <1>10. BoardComes => BoardComes'
    BY <1>2, <1>5, <1>7, <1>8 DEF BoardComes
  <1>11. RoundComes => RoundComes'
    BY <1>2, <1>7, <1>8 DEF RoundComes
  <1>12. Types'
    BY <1>1, <1>2, <1>9 DEF Types
  <1>13. Versions'
    BY <1>1, <1>2, <1>4, <1>7, <1>8 DEF Versions
  <1>14. Shown'
    BY <1>1, <1>2, <1>10, <1>11 DEF Shown, BoardDue, RoundDue, Joined, link
  <1>15. Held'
    BY <1>1, <1>2, <1>10 DEF Held, BoardDue
  <1>16. (pending' # {} => timer') /\ (snapshot'.at = "idle" => ~snapshot'.wanted)
    BY <1>2 DEF IInv
  <1>17. Followed'
    BY <1>1, <1>2, <1>5, <1>7, <1>8, <1>10 DEF Followed
  <1>18. QED
    BY <1>12, <1>13, <1>14, <1>15, <1>16, <1>17 DEF IInv

LEMMA FlushSendsKeeps ==
  ASSUME IInv, NEW f \in Flushes, FlushSends(f)
  PROVE  IInv'
  <1>1. Types /\ Versions /\ Shown /\ Held /\ Followed
    BY DEF IInv
  <1> DEFINE parts == flush[f].parts
             read  == [board |-> flush[f].board, round |-> kept.round]
             shows  == [p \in Parts |-> IF p \in Patch(parts, read) THEN read[p] ELSE view[p]]
  <1>2. /\ flush[f].at = "holds"
        /\ last' = [p \in Parts |-> IF p \in parts THEN read[p] ELSE last[p]]
        /\ view' = IF Joined THEN shows ELSE view
        /\ Overtakes(f) /\ flush' = [flush EXCEPT ![f] = Idle]
        /\ UNCHANGED <<pending, timer, kept, changes, ending, snapshot, link>>
    BY DEF FlushSends, Displays
  <1>3. parts \in SUBSET Parts /\ flush[f].board \in Nat /\ kept.round \in Nat /\ kept.board \in Nat
    BY <1>1 DEF Types, Parts
  <1>4. read \in [Parts -> Nat] /\ read["board"] = flush[f].board /\ read["round"] = kept.round
    BY <1>3, OfParts
  <1> HIDE DEF read
  <1>5. shows \in [Parts -> Nat]
    BY <1>1, <1>4 DEF Types
  <1>6. \A p \in Parts : /\ p \in parts /\ read[p] # last[p] => shows[p] = read[p]
                         /\ p \notin parts \/ read[p] = last[p] => shows[p] = view[p]
    BY <1>3 DEF Patch
  <1> HIDE DEF shows
  <1>7. "board" \in Parts /\ "round" \in Parts
    BY DEF Parts
  <1>8. last' \in [Parts -> Nat] /\ view' \in [Parts -> Nat]
    BY <1>1, <1>2, <1>4, <1>5 DEF Types
  <1>9. /\ "board" \in parts => last'.board = flush[f].board
        /\ "board" \notin parts => last'.board = last.board
        /\ "round" \in parts => last'.round = kept.round
        /\ "round" \notin parts => last'.round = last.round
    BY <1>2, <1>4, <1>7
  <1>10. Joined => /\ "board" \notin parts => view'.board = view.board
                   /\ "board" \in parts => \/ view'.board = flush[f].board
                                           \/ view'.board = view.board /\ flush[f].board = last.board
                   /\ "round" \notin parts => view'.round = view.round
                   /\ "round" \in parts => \/ view'.round = kept.round
                                           \/ view'.round = view.round /\ kept.round = last.round
    BY <1>2, <1>4, <1>6, <1>7
  <1>11. Idle \in [at : {"idle", "reads", "holds"}, parts : SUBSET Parts, board : Nat]
         /\ Idle.parts = {} /\ Idle.board = 0 /\ Idle.at = "idle"
    BY DEF Idle
  <1>12. /\ flush'[f] = Idle /\ \A g \in Flushes \ {f} : flush'[g] = flush[g]
         /\ flush' \in [Flushes -> [at : {"idle", "reads", "holds"}, parts : SUBSET Parts,
                                    board : Nat]]
    BY <1>1, <1>2, <1>11 DEF Types
  <1>13. Types'
    BY <1>1, <1>2, <1>8, <1>12 DEF Types
  <1>14. Versions'
    <2>1. last.board \in Nat /\ MaxChanges \in Nat /\ None = MaxChanges + 1
      BY <1>1, NoneIsLater DEF Types, Parts
    <2>2. last'.board <= kept.board \/ last'.board = None
      BY <1>1, <1>9 DEF Versions
    <2>3. \A g \in Flushes : flush'[g].board <= kept.board
      BY <1>1, <1>3, <1>11, <1>12 DEF Versions
    <2>4. QED
      BY <1>1, <1>2, <2>2, <2>3 DEF Versions
  <1>15. ~overtaken' => /\ ~overtaken /\ snapshot.at # "holds"
                        /\ \A g \in Flushes \ {f} : flush[g].at # "holds"
    <2>1. f # "snapshot" => (~overtaken' => /\ ~overtaken /\ snapshot.at # "holds"
                                            /\ \A g \in Flushes \ {f} : flush[g].at # "holds")
      BY <1>2 DEF Overtakes
    <2>2. f # "snapshot"
      BY LiveAssumption
    <2>3. QED
      BY <2>1, <2>2
  <1>16. BoardComes => BoardComes' \/ ("board" \in parts /\ flush[f].board = kept.board)
    BY <1>2, <1>12 DEF BoardComes
  <1>17. RoundComes => RoundComes' \/ "round" \in parts
    BY <1>2, <1>12 DEF RoundComes
  <1>18. Shown'
    <2> SUFFICES ASSUME Joined', ~overtaken', ~snapshot'.wanted
                 PROVE  BoardDue(view.board)' /\ RoundDue'
      BY DEF Shown
    <2>1. Joined /\ ~overtaken /\ ~snapshot.wanted
      BY <1>2, <1>15 DEF Joined, link
    <2>2. BoardDue(view.board) /\ RoundDue
      BY <1>1, <2>1 DEF Shown
    <2>3. view'.board = kept.board \/ (BoardComes' /\ last'.board # kept.board)
      <3>1. CASE "board" \notin parts
        BY <1>9, <1>10, <1>16, <2>1, <2>2, <3>1 DEF BoardDue
      <3>2. CASE "board" \in parts /\ flush[f].board = kept.board
        BY <1>10, <2>1, <2>2, <3>2 DEF BoardDue
      <3>3. CASE "board" \in parts /\ flush[f].board # kept.board
        <4>1. BoardComes
          BY <1>1, <1>2, <2>1, <3>3 DEF Followed
        <4>2. BoardComes' /\ last'.board # kept.board
          BY <1>9, <1>16, <3>3, <4>1
        <4>3. QED
          BY <4>2
      <3>4. QED
        BY <3>1, <3>2, <3>3
    <2>4. RoundDue'
      <3>1. CASE ending
        BY <1>2, <1>9, <1>10, <2>1, <2>2, <3>1 DEF RoundDue
      <3>2. CASE ~ending
        BY <1>2, <1>9, <1>10, <1>17, <2>1, <2>2, <3>2 DEF RoundDue
      <3>3. QED
        BY <3>1, <3>2
    <2>5. QED
      BY <1>2, <2>3, <2>4 DEF BoardDue
  <1>19. Held'
    BY <1>2, <1>15 DEF Held
  <1>20. (pending' # {} => timer') /\ (snapshot'.at = "idle" => ~snapshot'.wanted)
    BY <1>2 DEF IInv
  <1>21. Followed'
    BY <1>2, <1>11, <1>12, <1>15 DEF Followed
  <1>22. QED
    BY <1>13, <1>14, <1>18, <1>19, <1>20, <1>21 DEF IInv

-----------------------------------------------------------------------------
(* Snapshots and the page. *)

LEMMA SnapshotReadsKeeps ==
  ASSUME IInv, SnapshotReads
  PROVE  IInv'
  <1>1. Types /\ Versions /\ Shown /\ Held /\ Followed
    BY DEF IInv
  <1>2. /\ snapshot.at = "reads"
        /\ snapshot' = [snapshot EXCEPT !.at = "holds", !.board = kept.board, !.round = kept.round]
        /\ UNCHANGED <<kept, changes, ending, pending, timer, last, flush, link, view, overtaken>>
    BY DEF SnapshotReads, flushing
  <1>3. kept.board \in Nat /\ kept.round \in Nat
    BY <1>1 DEF Types, Parts
  <1>4. /\ snapshot' \in [at : {"idle", "reads", "holds"}, wanted : BOOLEAN, board : Nat, round : Nat]
        /\ snapshot'.at = "holds" /\ snapshot'.wanted = snapshot.wanted
        /\ snapshot'.board = kept.board /\ snapshot'.round = kept.round
    BY <1>1, <1>2, <1>3 DEF Types
  <1>5. Types'
    BY <1>1, <1>2, <1>4 DEF Types
  <1>6. Versions'
    BY <1>1, <1>2 DEF Versions
  <1>7. (BoardComes' <=> BoardComes) /\ (RoundComes' <=> RoundComes)
    BY <1>2 DEF BoardComes, RoundComes
  <1>8. Shown'
    BY <1>1, <1>2, <1>4, <1>7 DEF Shown, BoardDue, RoundDue, Joined, link
  <1>9. Held'
    BY <1>2, <1>4 DEF Held, BoardDue
  <1>10. Followed'
    BY <1>1, <1>2, <1>7 DEF Followed
  <1>11. pending' # {} => timer'
    BY <1>2 DEF IInv
  <1>12. QED
    BY <1>4, <1>5, <1>6, <1>8, <1>9, <1>10, <1>11 DEF IInv

LEMMA SnapshotSendsKeeps ==
  ASSUME IInv, SnapshotSends
  PROVE  IInv'
  <1>1. Types /\ Versions /\ Shown /\ Held /\ Followed
    BY DEF IInv
  <1>2. /\ snapshot.at = "holds" /\ snapshot' = NoSnapshot /\ Overtakes("snapshot")
        /\ view' = IF Joined /\ snapshot.wanted
                   THEN [board |-> snapshot.board, round |-> snapshot.round] ELSE view
        /\ UNCHANGED <<kept, changes, ending, pending, timer, last, flush, link>>
    BY DEF SnapshotSends, Taken, flushing
  <1>3. snapshot.board \in Nat /\ snapshot.round \in Nat
    BY <1>1 DEF Types
  <1>4. [board |-> snapshot.board, round |-> snapshot.round] \in [Parts -> Nat]
    BY <1>3, OfParts
  <1>5. /\ view' \in [Parts -> Nat]
        /\ Joined /\ snapshot.wanted => view'.board = snapshot.board /\ view'.round = snapshot.round
        /\ ~(Joined /\ snapshot.wanted) => view' = view
    BY <1>1, <1>2, <1>4 DEF Types
  <1>6. /\ NoSnapshot \in [at : {"idle", "reads", "holds"}, wanted : BOOLEAN, board : Nat, round : Nat]
        /\ NoSnapshot.at = "idle" /\ ~NoSnapshot.wanted
    BY DEF NoSnapshot
  <1>7. Types'
    BY <1>1, <1>2, <1>5, <1>6 DEF Types
  <1>8. Versions'
    BY <1>1, <1>2 DEF Versions
  <1>9. (BoardComes' <=> BoardComes) /\ (RoundComes' <=> RoundComes)
    BY <1>2 DEF BoardComes, RoundComes
  <1>10. ~overtaken' => ~overtaken /\ ~ending
    BY <1>2 DEF Overtakes
  <1>11. Shown'
    <2> SUFFICES ASSUME Joined', ~overtaken'
                 PROVE  BoardDue(view.board)' /\ RoundDue'
      BY DEF Shown
    <2>1. Joined /\ ~overtaken /\ ~ending
      BY <1>2, <1>10 DEF Joined, link
    <2>2. CASE snapshot.wanted
      <3>1. BoardDue(snapshot.board) /\ snapshot.round = kept.round
        BY <1>1, <1>2, <2>1 DEF Held
      <3>2. QED
        BY <1>2, <1>5, <1>9, <2>1, <2>2, <3>1 DEF BoardDue, RoundDue
    <2>3. CASE ~snapshot.wanted
      BY <1>1, <1>2, <1>5, <1>9, <2>1, <2>3 DEF Shown, BoardDue, RoundDue
    <2>4. QED
      BY <2>2, <2>3
  <1>12. Held'
    BY <1>2, <1>6 DEF Held
  <1>13. Followed'
    BY <1>1, <1>2, <1>9, <1>10 DEF Followed
  <1>14. pending' # {} => timer'
    BY <1>2 DEF IInv
  <1>15. QED
    BY <1>2, <1>6, <1>7, <1>8, <1>11, <1>12, <1>13, <1>14 DEF IInv

\* The page comes, goes, loses its connection or asks for a snapshot: it is in the room only
\* if it was, or waits for what it asked.
LEMMA PageKeeps ==
  ASSUME IInv, Unsent, view' \in [Parts -> Nat],
         snapshot' \in [at : {"idle", "reads", "holds"}, wanted : BOOLEAN, board : Nat, round : Nat],
         snapshot'.at = "idle" => ~snapshot'.wanted,
         snapshot'.at = "holds" =>
             /\ snapshot.at = "holds"
             /\ snapshot'.board = snapshot.board /\ snapshot'.round = snapshot.round,
         Joined' /\ ~snapshot'.wanted => Joined /\ ~snapshot.wanted /\ view' = view
  PROVE  IInv'
  <1>1. Types /\ Versions /\ Shown /\ Held /\ Followed
    BY DEF IInv
  <1>2. UNCHANGED <<kept, changes, ending, pending, timer, last, flush, overtaken>>
    BY DEF Unsent, flushing
  <1>3. (BoardComes' <=> BoardComes) /\ (RoundComes' <=> RoundComes)
    BY <1>2 DEF BoardComes, RoundComes
  <1>4. Types' /\ Versions'
    BY <1>1, <1>2 DEF Types, Versions
  <1>5. Shown'
    BY <1>1, <1>2, <1>3 DEF Shown, BoardDue, RoundDue
  <1>6. Held'
    BY <1>1, <1>2, <1>3 DEF Held, BoardDue
  <1>7. Followed'
    BY <1>1, <1>2, <1>3 DEF Followed
  <1>8. pending' # {} => timer'
    BY <1>2 DEF IInv
  <1>9. QED
    BY <1>4, <1>5, <1>6, <1>7, <1>8 DEF IInv

LEMMA AsksFor ==
  ASSUME Asks
  PROVE  /\ snapshot' \in [at : {"idle", "reads", "holds"}, wanted : BOOLEAN, board : Nat,
                           round : Nat]
         /\ snapshot'.at = "reads" /\ snapshot'.wanted
  <1>1. NoSnapshot \in [at : {"idle", "reads", "holds"}, wanted : BOOLEAN, board : Nat, round : Nat]
    BY DEF NoSnapshot
  <1>2. snapshot' = [NoSnapshot EXCEPT !.at = "reads", !.wanted = TRUE]
    BY DEF Asks
  <1>3. QED
    BY <1>1, <1>2

LEMMA ForgottenIs ==
  ASSUME IInv, Forgotten
  PROVE  /\ snapshot' \in [at : {"idle", "reads", "holds"}, wanted : BOOLEAN, board : Nat,
                           round : Nat]
         /\ snapshot'.at = snapshot.at /\ ~snapshot'.wanted
         /\ snapshot'.board = snapshot.board /\ snapshot'.round = snapshot.round
  BY DEF Forgotten, IInv, Types

\* What the page and the manager do.
Browsing == Open \/ Close \/ Drop \/ Connect \/ FailToConnect \/ Resync

LEMMA BrowsingKeeps ==
  ASSUME IInv, Browsing
  PROVE  IInv'
  <1>1. /\ view \in [Parts -> Nat] /\ Blank \in [Parts -> Nat]
        /\ snapshot \in [at : {"idle", "reads", "holds"}, wanted : BOOLEAN, board : Nat, round : Nat]
        /\ snapshot.at = "idle" => ~snapshot.wanted
    BY OfParts DEF IInv, Types, Blank
  <1>2. CASE Open
    <2>1. Unsent /\ ~room /\ room' = TRUE /\ UNCHANGED <<connection, view>>
      BY <1>2 DEF Open
    <2>2. CASE connection = "up"
      <3>1. Asks
        BY <1>2, <2>2 DEF Open
      <3>2. QED
        BY <1>1, <2>1, <3>1, AsksFor, PageKeeps
    <2>3. CASE connection # "up"
      <3>1. ~Joined' /\ snapshot' = snapshot
        BY <1>2, <2>1, <2>3 DEF Open, Joined
      <3>2. QED
        BY <1>1, <2>1, <3>1, PageKeeps
    <2>4. QED
      BY <2>2, <2>3
  <1>3. CASE Close
    <2>1. Unsent /\ ~Joined' /\ view' = Blank /\ Forgotten
      BY <1>3 DEF Close, Joined
    <2>2. QED
      BY <1>1, <2>1, ForgottenIs, PageKeeps
  <1>4. CASE Drop
    <2>1. Unsent /\ ~Joined' /\ view' = view /\ Forgotten
      BY <1>4 DEF Drop, Joined
    <2>2. QED
      BY <1>1, <2>1, ForgottenIs, PageKeeps
  <1>5. CASE Connect
    <2>1. Unsent /\ UNCHANGED <<room, view>>
      BY <1>5 DEF Connect
    <2>2. CASE room
      <3>1. Asks
        BY <1>5, <2>2 DEF Connect
      <3>2. QED
        BY <1>1, <2>1, <3>1, AsksFor, PageKeeps
    <2>3. CASE ~room
      <3>1. ~Joined' /\ snapshot' = snapshot
        BY <1>5, <2>1, <2>3 DEF Connect, Joined
      <3>2. QED
        BY <1>1, <2>1, <3>1, PageKeeps
    <2>4. QED
      BY <2>2, <2>3
  <1>6. CASE FailToConnect
    <2>1. Unsent /\ UNCHANGED <<snapshot, room, view>> /\ connection' \in {"gone", "down"}
      BY <1>6 DEF FailToConnect
    <2>2. ~Joined'
      BY <2>1 DEF Joined
    <2>3. QED
      BY <1>1, <2>1, <2>2, PageKeeps
  <1>7. CASE Resync
    <2>1. Unsent /\ Asks /\ view' = view
      BY <1>7 DEF Resync
    <2>2. QED
      BY <1>1, <2>1, AsksFor, PageKeeps
  <1>8. QED
    BY <1>2, <1>3, <1>4, <1>5, <1>6, <1>7 DEF Browsing

-----------------------------------------------------------------------------
(* Invariance. *)

LEMMA InitInv == Init => IInv
  <1> SUFFICES ASSUME Init PROVE IInv
    OBVIOUS
  <1>1. /\ kept = Blank /\ view = Blank /\ changes = 0 /\ pending = {}
        /\ last = [board |-> None, round |-> None] /\ snapshot = NoSnapshot /\ ~room
        /\ flush = [f \in Flushes |-> Idle]
    BY DEF Init
  <1>2. Blank \in [Parts -> Nat] /\ Blank.board = 0
    BY OfParts DEF Blank
  <1>3. last \in [Parts -> Nat] /\ last.board = None
    BY <1>1, NoneIsLater, OfParts
  <1>4. /\ Idle \in [at : {"idle", "reads", "holds"}, parts : SUBSET Parts, board : Nat]
        /\ Idle.at = "idle" /\ Idle.board = 0
    BY DEF Idle
  <1>5. /\ NoSnapshot \in [at : {"idle", "reads", "holds"}, wanted : BOOLEAN, board : Nat, round : Nat]
        /\ NoSnapshot.at = "idle" /\ ~NoSnapshot.wanted
    BY DEF NoSnapshot
  <1>6. Types
    BY <1>1, <1>2, <1>3, <1>4, <1>5 DEF Types
  <1>7. Versions
    BY <1>1, <1>2, <1>3, <1>4, NoneIsLater DEF Versions
  <1>8. Shown /\ Held
    BY <1>1, <1>5 DEF Shown, Held, Joined
  <1>9. Followed
    BY <1>1, <1>4 DEF Followed
  <1>10. QED
    BY <1>1, <1>5, <1>6, <1>7, <1>8, <1>9 DEF IInv

LEMMA NextInv == IInv /\ [Next]_vars => IInv'
  <1> SUFFICES ASSUME IInv, [Next]_vars PROVE IInv'
    OBVIOUS
  <1>1. CASE BidHeard
    BY <1>1, BidHeardKeeps
  <1>2. CASE RoundHeard
    BY <1>2, RoundHeardKeeps
  <1>3. CASE EndHeard
    BY <1>3, EndHeardKeeps
  <1>4. CASE EndApplied
    BY <1>4, EndAppliedKeeps
  <1>5. CASE \E f \in Flushes : FlushWorks(f)
    BY <1>5, FlushStartsKeeps, FlushReadsKeeps, FlushSendsKeeps DEF FlushWorks
  <1>6. CASE SnapshotWorks
    BY <1>6, SnapshotReadsKeeps, SnapshotSendsKeeps DEF SnapshotWorks
  <1>7. CASE Browsing
    BY <1>7, BrowsingKeeps
  <1>8. CASE UNCHANGED vars
    <2>1. UNCHANGED <<kept, changes, ending, pending, timer, last, flush, overtaken>>
          /\ UNCHANGED <<snapshot, connection, room, view>>
      BY <1>8 DEF vars, flushing, link
    <2>2. Joined' <=> Joined
      BY <2>1 DEF Joined
    <2>3. (BoardComes' <=> BoardComes) /\ (RoundComes' <=> RoundComes)
      BY <2>1 DEF BoardComes, RoundComes
    <2>4. QED
      BY <2>1, <2>2, <2>3 DEF IInv, Types, Versions, Shown, Held, Followed, BoardDue, RoundDue
  <1>9. QED
    BY <1>1, <1>2, <1>3, <1>4, <1>5, <1>6, <1>7, <1>8 DEF Next, Browsing

\* Whatever the page does not show is on its way to it.
THEOREM Invariance == Spec => []IInv
  BY InitInv, NextInv, PTL DEF Spec

\* When nothing is on its way, a page in the room shows the realtime state, unless it was
\* sent something read before what it already showed, for any number of flushes at once
\* (auction-realtime-events.handler.ts scheduleFlush and flush, with its comparison of what
\* was sent last).
THEOREM Shows == Spec => []ShowsUnlessOvertaken
  <1>1. IInv => ShowsUnlessOvertaken
    <2> SUFFICES ASSUME IInv, Quiet, Joined, ~overtaken PROVE view = kept
      BY DEF ShowsUnlessOvertaken
    <2>1. ~snapshot.wanted /\ pending = {}
      BY DEF IInv, Quiet
    <2>2. ~BoardComes /\ ~RoundComes
      BY <2>1 DEF Quiet, BoardComes, RoundComes
    <2>3. view.board = kept.board /\ view.round = kept.round
      BY <2>1, <2>2 DEF IInv, Shown, BoardDue, RoundDue, Quiet
    <2>4. view \in [Parts -> Nat] /\ kept \in [Parts -> Nat]
      BY DEF IInv, Types
    <2>5. QED
      BY <2>3, <2>4 DEF Parts
  <1>2. QED
    BY <1>1, Invariance, PTL

-----------------------------------------------------------------------------
(* Caches: the inductive invariant *)

AuctionDoc == [status : {"draft", "active", "completed", "none", "unlisted"}, round : Nat]
RoundDoc == [number : Nat, extended : BOOLEAN]
Kept == [a : AuctionDoc, r : RoundDoc]

\* The events of a start are no row of the outbox, those of a completion are two.
Feeds == {<<>>, <<"RoundEnded", "RoundStarted">>, <<"RoundEnded", "AuctionUpdated">>,
          <<"RoundStarted">>, <<"AuctionUpdated">>}

CachesTypes ==
    /\ auction \in AuctionDoc /\ round \in RoundDoc /\ feed \in Feeds
    /\ cache \in [C!Keys -> Kept]
    /\ fills \in Seq([key : C!Keys, value : Kept])
    /\ rebuilds \in Seq([a : AuctionDoc, r : RoundDoc, ready : BOOLEAN])

\* A write has been made and an event will drop both keys.
DropComes ==
    \/ starting \in {"activated", "invalidated", "created"}
    \/ bid # "none"
    \/ feed # <<>> /\ feed[1] = "RoundEnded"

\* What no event will drop is what the database has.
CacheTrue ==
    ~undropped /\ ~DropComes =>
        \A k \in C!Keys \ stale : cache[k] \in {C!Nothing, C!Fresh(k)}

OneRebuild == ~unseen => Len(rebuilds) <= 1

\* The lobby was sent what the database has, or the rebuild that runs will send it.
Covered ==
    IF rebuilds = <<>> THEN lobby = C!Snapshot(Tab, auction, round)
    ELSE rebuilds[1].a = auction /\ (rebuilds[1].ready => rebuilds[1].r = round)

\* After the last event either the timer is set or what follows it covers every write.
LobbyTrue ==
    ~unseen /\ starting = "done" /\ ~refresh /\ bid = "none" /\ feed = <<>> => Covered

CachesInv == CachesTypes /\ CacheTrue /\ OneRebuild /\ LobbyTrue

-----------------------------------------------------------------------------
(* Helpers *)

\* What is removed from a sequence leaves one element less.
LEMMA RemoveAtLen ==
  ASSUME NEW S, NEW s \in Seq(S), NEW i \in 1..Len(s)
  PROVE  C!RemoveAt(s, i) \in Seq(S) /\ Len(C!RemoveAt(s, i)) = Len(s) - 1
<1>1. Len(s) \in Nat /\ \A j \in 1..Len(s) : s[j] \in S
  BY LenProperties, ElementOfSeq
<1> DEFINE p == SubSeq(s, 1, i - 1)
           q == SubSeq(s, i + 1, Len(s))
<1>2. p \in Seq(S) /\ Len(p) = i - 1
  <2>1. \A j \in 1..i - 1 : s[j] \in S
    BY <1>1
  <2>2. 1 \in Int /\ i - 1 \in Int
    BY <1>1
  <2>3. p \in Seq(S) /\ Len(p) = IF 1 <= i - 1 THEN i - 1 - 1 + 1 ELSE 0
    BY <2>1, <2>2, SubSeqProperties
  <2> QED
    BY <1>1, <2>3
<1>3. q \in Seq(S) /\ Len(q) = Len(s) - i
  <2>1. \A j \in i + 1..Len(s) : s[j] \in S
    BY <1>1
  <2>2. i + 1 \in Int /\ Len(s) \in Int
    BY <1>1
  <2>3. q \in Seq(S) /\ Len(q) = IF i + 1 <= Len(s) THEN Len(s) - (i + 1) + 1 ELSE 0
    BY <2>1, <2>2, SubSeqProperties
  <2> QED
    BY <1>1, <2>3
<1>4. C!RemoveAt(s, i) = p \o q
  BY DEF C!RemoveAt
<1> HIDE DEF p, q
<1>5. p \o q \in Seq(S) /\ Len(p \o q) = Len(p) + Len(q)
  BY <1>2, <1>3, ConcatProperties
<1> QED
  BY <1>1, <1>2, <1>3, <1>4, <1>5

LEMMA FreshIs ==
  ASSUME CachesTypes, NEW k
  PROVE  C!Fresh(k) \in Kept /\ C!Nothing \in Kept
BY DEF CachesTypes, C!Fresh, C!Nothing, C!Value, C!NoAuction, C!NoRound, Kept, AuctionDoc,
       RoundDoc

\* A delete that works empties its keys and leaves the others.
LEMMA DroppingIs ==
  ASSUME CachesInv, NEW keys, C!Dropping(keys)
  PROVE  /\ cache' \in [C!Keys -> Kept]
         /\ ~undropped' => /\ ~undropped
                           /\ \A k \in C!Keys : k \in keys => cache'[k] = C!Nothing
                           /\ \A k \in C!Keys : k \notin keys =>
                                 cache'[k] = cache[k] /\ (k \in stale => k \in stale')
<1>1. CASE cache' = [k \in C!Keys |-> IF k \in keys THEN C!Nothing ELSE cache[k]]
           /\ stale' = stale \ keys /\ undropped' = undropped
  BY <1>1, FreshIs DEF CachesInv, CachesTypes
<1>2. CASE undropped' = TRUE /\ cache' = cache
  BY <1>2 DEF CachesInv, CachesTypes
<1> QED
  BY <1>1, <1>2 DEF C!Dropping

\* A delete while the database stays as it is.
LEMMA DroppingKeeps ==
  ASSUME CachesInv, NEW keys, C!Dropping(keys), UNCHANGED <<auction, round>>,
         DropComes' \/ keys = C!Keys \/ (DropComes => DropComes')
  PROVE  CacheTrue'
<1>1. \A k \in C!Keys : C!Fresh(k)' = C!Fresh(k)
  BY DEF C!Fresh
<1> QED
  BY <1>1, DroppingIs DEF CachesInv, CacheTrue

\* The database and the cache stay as they are, and so does what will be dropped.
LEMMA CacheRests ==
  ASSUME CachesInv, UNCHANGED <<auction, round, cache, stale, undropped>>,
         DropComes => DropComes'
  PROVE  CacheTrue'
<1>1. \A k \in C!Keys : C!Fresh(k)' = C!Fresh(k)
  BY DEF C!Fresh
<1> QED
  BY <1>1 DEF CachesInv, CacheTrue

\* What the lobby was sent, and the rebuild that runs, stay as they are.
LEMMA LobbyRests ==
  ASSUME CachesInv, UNCHANGED <<auction, round, rebuilds, lobby, unseen, refresh, starting, bid,
                                feed>>
  PROVE  OneRebuild' /\ LobbyTrue'
BY DEF CachesInv, OneRebuild, LobbyTrue, Covered, C!Snapshot, C!Statuses, C!Value, C!NoAuction,
       C!NoRound

\* A lobby that will hear of a change owes nothing yet.
LEMMA LobbyWaits ==
  ASSUME CachesInv, rebuilds' = rebuilds, unseen => unseen',
         unseen' \/ starting' # "done" \/ refresh' \/ bid' # "none" \/ feed' # <<>>
  PROVE  OneRebuild' /\ LobbyTrue'
BY DEF CachesInv, OneRebuild, LobbyTrue

-----------------------------------------------------------------------------
(* One lemma for each action, as one for those that write, and so on *)

\* An event drops what it drops, and the lobby hears of it or is known not to.
LEMMA EmittedIs ==
  ASSUME CachesInv, NEW event, NEW where, C!Emitted(event, where)
  PROVE  C!Dropping(C!Dropped(event)) /\ (unseen => unseen') /\ (unseen' \/ refresh')
BY DEF C!Emitted, C!Scheduled

LEMMA StartChecksInv ==
  ASSUME CachesInv, C!StartChecks
  PROVE  CachesInv'
<1> USE DEF C!StartChecks, C!cachesUnchanged, C!readersUnchanged, C!history, C!db
<1>1. CachesTypes'
  BY DEF CachesInv, CachesTypes
<1>2. CacheTrue'
  BY CacheRests DEF DropComes
<1>3. OneRebuild' /\ LobbyTrue'
  BY LobbyWaits
<1> QED
  BY <1>1, <1>2, <1>3 DEF CachesInv

LEMMA StartActivatesInv ==
  ASSUME CachesInv, C!StartActivates
  PROVE  CachesInv'
<1> USE DEF C!StartActivates, C!cachesUnchanged, C!readersUnchanged, C!history
<1>1. CachesTypes'
  BY DEF CachesInv, CachesTypes, AuctionDoc
<1>2. CacheTrue'
  BY DEF CacheTrue, DropComes
<1>3. OneRebuild' /\ LobbyTrue'
  BY LobbyWaits
<1> QED
  BY <1>1, <1>2, <1>3 DEF CachesInv

LEMMA StartInvalidatesInv ==
  ASSUME CachesInv, C!StartInvalidates
  PROVE  CachesInv'
<1> USE DEF C!StartInvalidates, C!readersUnchanged, C!db
<1>1. CachesTypes'
  BY DroppingIs DEF CachesInv, CachesTypes
<1>2. CacheTrue'
  BY DEF CacheTrue, DropComes
<1>3. OneRebuild' /\ LobbyTrue'
  BY LobbyWaits
<1> QED
  BY <1>1, <1>2, <1>3 DEF CachesInv

LEMMA StartCreatesInv ==
  ASSUME CachesInv, C!StartCreates
  PROVE  CachesInv'
<1> USE DEF C!StartCreates, C!cachesUnchanged, C!readersUnchanged, C!history
<1>1. CachesTypes'
  BY DEF CachesInv, CachesTypes, RoundDoc
<1>2. CacheTrue'
  BY DEF CacheTrue, DropComes
<1>3. OneRebuild' /\ LobbyTrue'
  BY LobbyWaits
<1> QED
  BY <1>1, <1>2, <1>3 DEF CachesInv

LEMMA StartPublishesInv ==
  ASSUME CachesInv, C!StartPublishes
  PROVE  CachesInv'
<1> USE DEF C!StartPublishes, C!readersUnchanged, C!db
<1>1. C!Dropping(C!Keys)
  BY EmittedIs DEF C!Dropped
<1>2. CachesTypes'
  BY <1>1, DroppingIs DEF CachesInv, CachesTypes
<1>3. CacheTrue'
  BY <1>1, DroppingKeeps
<1>4. OneRebuild' /\ LobbyTrue'
  BY EmittedIs, LobbyWaits
<1> QED
  BY <1>2, <1>3, <1>4 DEF CachesInv

LEMMA BidCommitsInv ==
  ASSUME CachesInv, NEW where \in {"api", "worker"}, C!BidCommits(where)
  PROVE  CachesInv'
<1> USE DEF C!BidCommits, C!cachesUnchanged, C!readersUnchanged, C!history
<1>1. CachesTypes'
  BY DEF CachesInv, CachesTypes, RoundDoc
<1>2. CacheTrue'
  BY DEF CacheTrue, DropComes
<1>3. OneRebuild' /\ LobbyTrue'
  BY LobbyWaits
<1> QED
  BY <1>1, <1>2, <1>3 DEF CachesInv

LEMMA BidPublishesInv ==
  ASSUME CachesInv, C!BidPublishes
  PROVE  CachesInv'
<1> USE DEF C!BidPublishes, C!readersUnchanged, C!db
<1>1. C!Dropping(C!Keys)
  BY EmittedIs DEF C!Dropped
<1>2. CachesTypes'
  BY <1>1, DroppingIs DEF CachesInv, CachesTypes
<1>3. CacheTrue'
  BY <1>1, DroppingKeeps
<1>4. OneRebuild' /\ LobbyTrue'
  BY EmittedIs, LobbyWaits
<1> QED
  BY <1>2, <1>3, <1>4 DEF CachesInv

LEMMA BidDropsStaleRoundInv ==
  ASSUME CachesInv, C!BidDropsStaleRound
  PROVE  CachesInv'
<1> USE DEF C!BidDropsStaleRound, C!readersUnchanged, C!db
<1>1. CachesTypes'
  BY DroppingIs DEF CachesInv, CachesTypes
<1>2. CacheTrue'
  BY DroppingKeeps DEF DropComes
<1>3. OneRebuild' /\ LobbyTrue'
  BY LobbyRests
<1> QED
  BY <1>1, <1>2, <1>3 DEF CachesInv

LEMMA RoundCompletesInv ==
  ASSUME CachesInv, C!RoundCompletes
  PROVE  CachesInv'
<1>1. /\ feed' \in {<<"RoundEnded", "RoundStarted">>, <<"RoundEnded", "AuctionUpdated">>}
      /\ rebuilds' = rebuilds /\ unseen' = unseen
      /\ UNCHANGED <<cache, fills>>
  BY DEF C!RoundCompletes, C!cachesUnchanged, C!readersUnchanged, C!history
<1>2. feed' # <<>> /\ feed'[1] = "RoundEnded" /\ feed' \in Feeds
  BY <1>1 DEF Feeds
<1>3. auction' \in AuctionDoc /\ round' \in RoundDoc
  <2>1. auction \in AuctionDoc /\ round \in RoundDoc
    BY DEF CachesInv, CachesTypes
  <2>2. CASE round.number < TotalRounds
    <3>1. round.number + 1 \in Nat
      BY <2>1 DEF RoundDoc
    <3>2. /\ round' = [number |-> round.number + 1, extended |-> FALSE]
          /\ auction' = [auction EXCEPT !.round = round.number + 1]
      BY <2>2 DEF C!RoundCompletes
    <3>3. round' \in RoundDoc
      BY <3>1, <3>2 DEF RoundDoc
    <3>4. auction' \in AuctionDoc
      BY <2>1, <3>1, <3>2 DEF AuctionDoc
    <3> QED
      BY <3>3, <3>4
  <2>3. CASE ~(round.number < TotalRounds)
    <3>1. round' = C!NoRound /\ auction' = [auction EXCEPT !.status = "completed"]
      BY <2>3 DEF C!RoundCompletes
    <3> QED
      BY <2>1, <3>1 DEF AuctionDoc, RoundDoc, C!NoRound
  <2> QED
    BY <2>2, <2>3
<1>4. CachesTypes'
  BY <1>1, <1>2, <1>3 DEF CachesInv, CachesTypes
<1>5. CacheTrue'
  BY <1>2 DEF CacheTrue, DropComes
<1>6. OneRebuild' /\ LobbyTrue'
  BY <1>1, <1>2, LobbyWaits
<1> QED
  BY <1>4, <1>5, <1>6 DEF CachesInv

LEMMA FeedEmitsInv ==
  ASSUME CachesInv, C!FeedEmits
  PROVE  CachesInv'
<1> USE DEF C!FeedEmits, C!readersUnchanged, C!db
<1>1. feed' \in Feeds /\ (feed' # <<>> => feed'[1] # "RoundEnded") /\ Head(feed) = feed[1]
  <2>1. feed' = Tail(feed)
    OBVIOUS
  <2>2. CASE feed \in {<<"RoundStarted">>, <<"AuctionUpdated">>}
    BY <2>1, <2>2 DEF Feeds
  <2>3. CASE feed = <<"RoundEnded", "RoundStarted">>
    BY <2>1, <2>3 DEF Feeds
  <2>4. CASE feed = <<"RoundEnded", "AuctionUpdated">>
    BY <2>1, <2>4 DEF Feeds
  <2> QED
    BY <2>2, <2>3, <2>4 DEF CachesInv, CachesTypes, Feeds
<1>2. C!Dropping(C!Dropped(feed[1]))
  BY <1>1, EmittedIs
<1>3. CachesTypes'
  BY <1>1, <1>2, DroppingIs DEF CachesInv, CachesTypes
<1>4. CacheTrue'
  <2>1. feed[1] = "RoundEnded" => C!Dropped(feed[1]) = C!Keys
    BY DEF C!Dropped
  <2>2. feed[1] # "RoundEnded" => (DropComes => DropComes')
    BY DEF DropComes
  <2> QED
    BY <1>2, <2>1, <2>2, DroppingKeeps
<1>5. OneRebuild' /\ LobbyTrue'
  BY EmittedIs, LobbyWaits
<1> QED
  BY <1>3, <1>4, <1>5 DEF CachesInv

LEMMA MissInv ==
  ASSUME CachesInv, NEW k \in C!Keys, C!Miss(k)
  PROVE  CachesInv'
<1> USE DEF C!Miss, C!writersUnchanged, C!history, C!db
<1>1. fills' \in Seq([key : C!Keys, value : Kept])
  <2>1. [key |-> k, value |-> C!Fresh(k)] \in [key : C!Keys, value : Kept]
    BY FreshIs DEF CachesInv
  <2> QED
    BY <2>1, AppendProperties DEF CachesInv, CachesTypes
<1>2. CachesTypes'
  BY <1>1 DEF CachesInv, CachesTypes
<1>3. CacheTrue'
  BY CacheRests DEF DropComes
<1>4. OneRebuild' /\ LobbyTrue'
  BY LobbyRests
<1> QED
  BY <1>2, <1>3, <1>4 DEF CachesInv

LEMMA SetInv ==
  ASSUME CachesInv, NEW i \in DOMAIN fills, C!Set(i)
  PROVE  CachesInv'
<1> USE DEF C!Set, C!writersUnchanged, C!db
<1>1. i \in 1..Len(fills) /\ fills[i] \in [key : C!Keys, value : Kept]
  BY LenProperties, ElementOfSeq DEF CachesInv, CachesTypes
<1>2. fills' \in Seq([key : C!Keys, value : Kept])
  BY <1>1, RemoveAtLen DEF CachesInv, CachesTypes
<1>3. OneRebuild' /\ LobbyTrue'
  BY LobbyRests
<1>4. \A k \in C!Keys : C!Fresh(k)' = C!Fresh(k)
  BY DEF C!Fresh
<1>5. cache' \in [C!Keys -> Kept] /\ CacheTrue'
  <2>1. DropComes' <=> DropComes
    BY DEF DropComes
  <2>2. CASE UNCHANGED <<cache, stale>>
    BY <2>1, <2>2, CacheRests DEF CachesInv, CachesTypes
  <2>3. CASE /\ cache' = [cache EXCEPT ![fills[i].key] = fills[i].value]
             /\ stale' = IF fills[i].value = C!Fresh(fills[i].key) THEN stale \ {fills[i].key}
                         ELSE stale \union {fills[i].key}
    <3>1. cache' \in [C!Keys -> Kept]
      BY <1>1, <2>3 DEF CachesInv, CachesTypes
    <3>2. \A k \in C!Keys \ stale' :
             \/ k = fills[i].key /\ cache'[k] = C!Fresh(k)
             \/ k \notin stale /\ cache'[k] = cache[k]
      BY <1>1, <2>3 DEF CachesInv, CachesTypes
    <3> QED
      BY <1>4, <2>1, <3>1, <3>2 DEF CachesInv, CacheTrue
  <2> QED
    BY <2>2, <2>3 DEF C!Storing
<1>6. CachesTypes'
  BY <1>2, <1>5 DEF CachesInv, CachesTypes
<1> QED
  BY <1>3, <1>5, <1>6 DEF CachesInv

LEMMA ExpireInv ==
  ASSUME CachesInv, NEW k \in C!Keys, C!Expire(k)
  PROVE  CachesInv'
<1> USE DEF C!Expire, C!writersUnchanged, C!db
<1>1. cache' \in [C!Keys -> Kept]
  BY FreshIs DEF CachesInv, CachesTypes
<1>2. CachesTypes'
  BY <1>1 DEF CachesInv, CachesTypes
<1>3. \A h \in C!Keys : C!Fresh(h)' = C!Fresh(h)
  BY DEF C!Fresh
<1>4. ASSUME NEW h \in C!Keys
      PROVE  \/ cache'[h] = C!Nothing
             \/ cache'[h] = cache[h] /\ (h \in stale => h \in stale')
  BY DEF CachesInv, CachesTypes
<1>5. CacheTrue'
  BY <1>3, <1>4 DEF CachesInv, CacheTrue, DropComes
<1>6. OneRebuild' /\ LobbyTrue'
  BY LobbyRests
<1> QED
  BY <1>2, <1>5, <1>6 DEF CachesInv

LEMMA TimerFiresInv ==
  ASSUME CachesInv, C!TimerFires
  PROVE  CachesInv'
<1> USE DEF C!TimerFires, C!writersUnchanged, C!db
<1>1. C!Reading \in [a : AuctionDoc, r : RoundDoc, ready : BOOLEAN]
  BY DEF CachesInv, CachesTypes, C!Reading, C!NoRound, RoundDoc
<1>2. /\ rebuilds' \in Seq([a : AuctionDoc, r : RoundDoc, ready : BOOLEAN])
      /\ Len(rebuilds') = Len(rebuilds) + 1 /\ rebuilds'[Len(rebuilds) + 1] = C!Reading
  BY <1>1, AppendProperties DEF CachesInv, CachesTypes
<1>3. CachesTypes'
  BY <1>2 DEF CachesInv, CachesTypes
<1>4. CacheTrue'
  BY CacheRests DEF DropComes
<1>5. ~unseen' => Len(rebuilds') = 1 /\ rebuilds'[1] = C!Reading
  <2>1. ~unseen' => Len(rebuilds) = 0
    BY EmptySeq
  <2> QED
    BY <1>2, <2>1
<1>6. OneRebuild'
  BY <1>5 DEF OneRebuild
<1>7. LobbyTrue'
  <2>1. rebuilds' # <<>>
    BY <1>2, LenProperties DEF CachesInv, CachesTypes
  <2> QED
    BY <1>5, <2>1 DEF LobbyTrue, Covered, C!Reading
<1> QED
  BY <1>3, <1>4, <1>6, <1>7 DEF CachesInv

LEMMA RebuildReadsInv ==
  ASSUME CachesInv, NEW b \in DOMAIN rebuilds, C!RebuildReads(b)
  PROVE  CachesInv'
<1> USE DEF C!RebuildReads, C!writersUnchanged, C!db, C!history
<1> DEFINE R == [a : AuctionDoc, r : RoundDoc, ready : BOOLEAN]
<1>1. b \in 1..Len(rebuilds) /\ rebuilds \in Seq(R) /\ round \in RoundDoc
  BY LenProperties DEF CachesInv, CachesTypes
<1>2. rebuilds[b] \in R
  BY <1>1, ElementOfSeq
<1> DEFINE n == [rebuilds[b] EXCEPT !.r = round, !.ready = TRUE]
<1>3. n \in R /\ n.a = rebuilds[b].a /\ n.r = round
  BY <1>1, <1>2
<1>4. rebuilds' = [rebuilds EXCEPT ![b] = n]
  OBVIOUS
<1> HIDE DEF R, n
<1>5. rebuilds' \in Seq(R) /\ Len(rebuilds') = Len(rebuilds) /\ rebuilds'[b] = n
  <2>1. b \in 1..Len(rebuilds) /\ n \in R
    BY <1>1, <1>3
  <2>2. /\ [rebuilds EXCEPT ![b] = n] \in Seq(R)
        /\ Len([rebuilds EXCEPT ![b] = n]) = Len(rebuilds)
        /\ \A j \in 1..Len(rebuilds) :
              [rebuilds EXCEPT ![b] = n][j] = IF j = b THEN n ELSE rebuilds[j]
    BY <1>1, <2>1, ExceptSeq
  <2> QED
    BY <1>4, <2>1, <2>2
<1>6. CachesTypes'
  BY <1>5 DEF CachesInv, CachesTypes, R
<1>7. CacheTrue'
  BY CacheRests DEF DropComes
<1>8. OneRebuild'
  BY <1>5 DEF CachesInv, OneRebuild
<1>9. LobbyTrue'
  <2>1. rebuilds # <<>> /\ rebuilds' # <<>>
    BY <1>1, <1>5, LenProperties
  <2>2. ~unseen => b = 1
    BY <1>1, LenProperties DEF CachesInv, OneRebuild
  <2> QED
    BY <1>3, <1>5, <2>1, <2>2 DEF CachesInv, LobbyTrue, Covered
<1> QED
  BY <1>6, <1>7, <1>8, <1>9 DEF CachesInv

LEMMA RebuildEndsInv ==
  ASSUME CachesInv, NEW b \in DOMAIN rebuilds, C!RebuildEnds(b)
  PROVE  CachesInv'
<1> USE DEF C!RebuildEnds, C!writersUnchanged, C!db, C!history
<1>1. b \in 1..Len(rebuilds) /\ Len(rebuilds) \in Nat
  BY LenProperties DEF CachesInv, CachesTypes
<1>2. /\ rebuilds' \in Seq([a : AuctionDoc, r : RoundDoc, ready : BOOLEAN])
      /\ Len(rebuilds') = Len(rebuilds) - 1
  BY <1>1, RemoveAtLen DEF CachesInv, CachesTypes
<1>3. CachesTypes'
  BY <1>2 DEF CachesInv, CachesTypes
<1>4. CacheTrue'
  BY CacheRests DEF DropComes
<1>5. OneRebuild'
  BY <1>1, <1>2 DEF CachesInv, OneRebuild
<1>6. ~unseen => b = 1 /\ rebuilds' = <<>> /\ rebuilds # <<>>
  BY <1>1, <1>2, EmptySeq, LenProperties DEF CachesInv, OneRebuild
<1>7. LobbyTrue'
  <2> SUFFICES ASSUME ~unseen, starting = "done", ~refresh, bid = "none", feed = <<>>
               PROVE  Covered'
    BY DEF LobbyTrue
  <2>1. rebuilds[1].a = auction /\ rebuilds[1].r = round
    BY <1>6 DEF CachesInv, LobbyTrue, Covered
  <2>2. lobby' = C!Snapshot(Tab, auction, round)
    BY <1>6, <2>1
  <2> QED
    BY <1>6, <2>2 DEF Covered, C!Snapshot, C!Statuses, C!Value, C!NoAuction, C!NoRound
<1> QED
  BY <1>3, <1>4, <1>5, <1>7 DEF CachesInv

-----------------------------------------------------------------------------
(* The theorems *)

LEMMA CachesInit == C!Init => CachesInv
<1> SUFFICES ASSUME C!Init
             PROVE  CachesInv
  OBVIOUS
<1>1. CachesTypes
  <2>1. C!Nothing \in Kept
    BY DEF C!Nothing, C!Value, C!NoAuction, C!NoRound, Kept, AuctionDoc, RoundDoc
  <2> QED
    BY <2>1, EmptySeq DEF C!Init, C!NoRound, CachesTypes, AuctionDoc, RoundDoc, Feeds
<1>2. CacheTrue
  BY DEF C!Init, CacheTrue
<1>3. OneRebuild /\ LobbyTrue
  BY EmptySeq DEF C!Init, OneRebuild, LobbyTrue
<1> QED
  BY <1>1, <1>2, <1>3 DEF CachesInv

LEMMA CachesNext == CachesInv /\ [C!Next]_C!vars => CachesInv'
<1> SUFFICES ASSUME CachesInv, [C!Next]_C!vars
             PROVE  CachesInv'
  OBVIOUS
<1>1. CASE C!Writing
  BY <1>1, StartChecksInv, StartActivatesInv, StartInvalidatesInv, StartCreatesInv,
     StartPublishesInv, BidPublishesInv, FeedEmitsInv DEF C!Writing
<1>2. CASE C!Filling \/ C!Rebuilding
  BY <1>2, SetInv, RebuildReadsInv, RebuildEndsInv DEF C!Filling, C!Rebuilding
<1>3. CASE UNCHANGED C!vars
  <2> USE <1>3 DEF C!vars, C!db, C!history
  <2>1. CachesTypes'
    BY DEF CachesInv, CachesTypes
  <2>2. CacheTrue'
    BY CacheRests DEF DropComes
  <2>3. OneRebuild' /\ LobbyTrue'
    BY LobbyRests
  <2> QED
    BY <2>1, <2>2, <2>3 DEF CachesInv
<1> QED
  BY <1>1, <1>2, <1>3, TimerFiresInv, BidCommitsInv, BidDropsStaleRoundInv, RoundCompletesInv,
     MissInv, ExpireInv DEF C!Next

\* The inductive invariant: see CachesInv.
THEOREM CachesInductive == C!Spec => []CachesInv
BY CachesInit, CachesNext, PTL DEF C!Spec

\* Once the events of every write have been handled, what Redis keeps of the auction and of
\* its round is what the database has, unless a reader was overtaken or a delete failed, for
\* any number of readers, bids and rounds (cache-events.handler.ts).
THEOREM CacheIsTrue == C!Spec => []StaleOnlyIfOvertaken
<1>1. CachesInv => StaleOnlyIfOvertaken
  BY DEF CachesInv, CacheTrue, DropComes, StaleOnlyIfOvertaken, C!StaleOnlyIfOvertaken, C!Settled
<1> QED
  BY <1>1, CachesInductive, PTL

\* When nothing is left to do, the lobby room was last sent what the database has, unless two
\* rebuilds overlapped or it missed an event (websocket-events.handler.ts).
THEOREM LobbyIsLatest == C!Spec => []LobbyShowsLatest
<1>1. CachesInv => LobbyShowsLatest
  BY DEF CachesInv, LobbyTrue, Covered, LobbyShowsLatest, C!LobbyShowsLatest, C!Settled
<1> QED
  BY <1>1, CachesInductive, PTL

=============================================================================
