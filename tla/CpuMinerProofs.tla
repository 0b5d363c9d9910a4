--------------------------- MODULE CpuMinerProofs ---------------------------
(***************************************************************************)
(* For every field, every list of round constants, every team of threads   *)
(* and every set of calls: the OpenMP miner returns exactly the planets of *)
(* the chunk, and implements the contract of common::Miner.                *)
(***************************************************************************)
EXTENDS CpuMiner, TLAPS

Fields == {"l", "r", "snap_l", "snap_r"}

(***************************************************************************)
(* mix leaves a pair, whatever the pair it starts from.                    *)
(***************************************************************************)
LEMMA MixStatePair ==
  ASSUME NEW s, NEW key
  PROVE  MixState(s, key) = <<MixState(s, key)[1], MixState(s, key)[2]>>
BY DEF MixState, LastRound

(***************************************************************************)
(* The sponge at the top of a column: reset, inject, mix and save leave    *)
(* the column's state in the snapshot, whatever the sponge held before.    *)
(***************************************************************************)
LEMMA ColumnSponge ==
  ASSUME NEW s, DOMAIN s = Fields, NEW cx, NEW key,
         NEW n, n = Save(Mix(Inject(Reset(s), WrapCoordinate(cx)), key))
  PROVE  /\ DOMAIN n = Fields
         /\ <<n.snap_l, n.snap_r>> = ColumnState(cx, key)
<1> DEFINE a == Reset(s)
           b == Inject(a, WrapCoordinate(cx))
           c == Mix(b, key)
<1>1. DOMAIN a = Fields /\ a.l = 0 /\ a.r = 0
  BY DEF Reset, Fields
<1> HIDE DEF a
<1>2. DOMAIN b = Fields /\ b.l = FieldAdd(0, WrapCoordinate(cx)) /\ b.r = 0
  BY <1>1 DEF Inject, Fields
<1> HIDE DEF b
<1>3. /\ DOMAIN c = Fields
      /\ c.l = ColumnState(cx, key)[1]
      /\ c.r = ColumnState(cx, key)[2]
  BY <1>2 DEF Mix, ColumnState, Fields
<1> HIDE DEF c
<1>4. n = Save(c)
  BY DEF a, b, c
<1>5. /\ DOMAIN n = Fields
      /\ n.snap_l = ColumnState(cx, key)[1]
      /\ n.snap_r = ColumnState(cx, key)[2]
  BY <1>3, <1>4 DEF Save, Fields
<1> QED
  BY <1>5, MixStatePair DEF ColumnState

(***************************************************************************)
(* The sponge after a row: restore, inject and mix compute the hash of the *)
(* location from the snapshot alone, and keep the snapshot.                *)
(***************************************************************************)
LEMMA RowSponge ==
  ASSUME NEW s, DOMAIN s = Fields, NEW px, NEW py, NEW key,
         <<s.snap_l, s.snap_r>> = ColumnState(px, key),
         NEW n, n = Mix(Inject(Restore(s), WrapCoordinate(py)), key)
  PROVE  /\ DOMAIN n = Fields
         /\ <<n.snap_l, n.snap_r>> = ColumnState(px, key)
         /\ Result(n) = PlanetHash(px, py, key)
<1> DEFINE a == Restore(s)
           b == Inject(a, WrapCoordinate(py))
           cs == ColumnState(px, key)
<1>1. /\ DOMAIN a = Fields
      /\ a.l = cs[1] /\ a.r = cs[2]
      /\ <<a.snap_l, a.snap_r>> = cs
  BY DEF Restore, Fields
<1> HIDE DEF a
<1>2. /\ DOMAIN b = Fields
      /\ b.l = FieldAdd(cs[1], WrapCoordinate(py)) /\ b.r = cs[2]
      /\ <<b.snap_l, b.snap_r>> = cs
  BY <1>1 DEF Inject, Fields
<1>3. n = Mix(b, key)
  BY DEF a
<1> HIDE DEF b
<1> QED
  BY <1>2, <1>3 DEF Mix, Result, PlanetHash, Fields

(***************************************************************************)
(* What it is to be a planet of a call's chunk.                            *)
(***************************************************************************)
LEMMA PlanetsMember ==
  ASSUME NEW c \in Calls \ Fatal, NEW p
  PROVE  p \in PlanetsOf[c] <=>
           \E px \in Columns(c), py \in Rows(c) :
             /\ IsPlanet(PlanetHash(px, py, c.key), Threshold(c))
             /\ p = Location(px, py, PlanetHash(px, py, c.key))
<1>1. PlanetsOf[c] = Planets(c)
  BY DEF PlanetsOf
<1>2. ASSUME p \in Planets(c)
      PROVE  \E px \in Columns(c), py \in Rows(c) :
             /\ IsPlanet(PlanetHash(px, py, c.key), Threshold(c))
             /\ p = Location(px, py, PlanetHash(px, py, c.key))
  <2>1. PICK q \in Columns(c) \X Rows(c) :
          /\ IsPlanet(PlanetHash(q[1], q[2], c.key), Threshold(c))
          /\ p = Location(q[1], q[2], PlanetHash(q[1], q[2], c.key))
    BY <1>2 DEF Planets
  <2>2. q[1] \in Columns(c) /\ q[2] \in Rows(c)
    OBVIOUS
  <2> QED
    BY <2>1, <2>2
<1>3. ASSUME NEW px \in Columns(c), NEW py \in Rows(c),
             IsPlanet(PlanetHash(px, py, c.key), Threshold(c)),
             p = Location(px, py, PlanetHash(px, py, c.key))
      PROVE  p \in Planets(c)
  <2> DEFINE q == <<px, py>>
  <2>1. q \in Columns(c) \X Rows(c) /\ q[1] = px /\ q[2] = py
    OBVIOUS
  <2> QED
    BY <1>3, <2>1 DEF Planets
<1> QED
  BY <1>1, <1>2, <1>3

LEMMA CallTypes ==
  ASSUME NEW c \in Calls
  PROVE  /\ c.x \in Int /\ c.y \in Int /\ c.side \in Nat /\ c.rarity \in Nat
         /\ Columns(c) \subseteq Int
         /\ Rows(c) \subseteq Int
<1>1. Word \in Nat
  BY FieldAssumption
<1> QED
  BY <1>1, CallAssumption DEF Columns, Rows

-----------------------------------------------------------------------------
(***************************************************************************)
(* Init and the steps of the callers.                                      *)
(***************************************************************************)
LEMMA InitInv == Init => IInv
<1> SUFFICES ASSUME Init PROVE IInv
  OBVIOUS
<1>1. TypeOK
  <2>1. \A t \in Threads : DOMAIN sponge[t] = {"l", "r", "snap_l", "snap_r"}
    BY DEF Init, NewSponge
  <2> QED
    BY <2>1 DEF Init, TypeOK
<1>2. ~ Working /\ \A t \in Threads : pc[t] = "idle"
  BY DEF Init, Working
<1>3. TeamInv /\ ColumnInv /\ SpongeInv /\ CriticalInv
  BY <1>2 DEF Init, TeamInv, ColumnInv, SpongeInv, CriticalInv, Busy
<1>4. FoundInv /\ MineCorrect
  BY <1>2 DEF Init, FoundInv, MineCorrect
<1> QED
  BY <1>1, <1>3, <1>4 DEF IInv

(***************************************************************************)
(* Outside a parallel region no thread is at work.                         *)
(***************************************************************************)
LEMMA NoTeam ==
  ASSUME IInv, host # "mining"
  PROVE  ~ Working
BY DEF IInv, TeamInv

LEMMA MineSingleInv ==
  ASSUME IInv, NEW c \in Calls, MineSingle(c)
  PROVE  IInv'
<1> USE DEF MineSingle, Contract!Begin, teamVars
<1>1. ~ Working /\ \A t \in Threads : pc[t] = "idle"
  BY NoTeam DEF Working
<1>2. ~ Working'
  BY <1>1 DEF Working
<1>3. TypeOK'
  BY DEF IInv, TypeOK
<1>4. TeamInv' /\ ColumnInv' /\ SpongeInv' /\ CriticalInv'
  BY <1>1, <1>2 DEF TeamInv, ColumnInv, SpongeInv, CriticalInv, Busy
<1>5. FoundInv' /\ MineCorrect'
  BY <1>2 DEF FoundInv, MineCorrect
<1> QED
  BY <1>3, <1>4, <1>5 DEF IInv

LEMMA BenchmarkAgainInv ==
  ASSUME IInv, BenchmarkAgain
  PROVE  IInv'
<1> USE DEF BenchmarkAgain, Contract!BeginAgain, teamVars
<1>1. ~ Working /\ \A t \in Threads : pc[t] = "idle"
  BY NoTeam DEF Working
<1>2. ~ Working'
  BY <1>1 DEF Working
<1>3. TypeOK'
  BY DEF IInv, TypeOK
<1>4. TeamInv' /\ ColumnInv' /\ SpongeInv' /\ CriticalInv'
  BY <1>1, <1>2 DEF IInv, TeamInv, ColumnInv, SpongeInv, CriticalInv, Busy
<1>5. FoundInv' /\ MineCorrect'
  <2>1. Len(result) \in Nat
    BY DEF IInv, TypeOK
  <2> QED
    BY <1>2, <2>1 DEF FoundInv, MineCorrect
<1> QED
  BY <1>3, <1>4, <1>5 DEF IInv

LEMMA DivideByZeroInv ==
  ASSUME IInv, DivideByZero
  PROVE  IInv'
<1> USE DEF DivideByZero, teamVars
<1>1. ~ Working /\ ~ Working'
  BY DEF Working
<1>2. TypeOK'
  BY DEF IInv, TypeOK
<1>3. TeamInv' /\ ColumnInv' /\ SpongeInv' /\ CriticalInv'
  BY <1>1 DEF IInv, TeamInv, ColumnInv, SpongeInv, CriticalInv, Busy
<1>4. FoundInv' /\ MineCorrect'
  BY <1>1 DEF IInv, FoundInv, MineCorrect
<1> QED
  BY <1>2, <1>3, <1>4 DEF IInv

(***************************************************************************)
(* Fork: every column is still to be taken, so no planet has been passed,  *)
(* and the call has found none.                                            *)
(***************************************************************************)
LEMMA ForkInv ==
  ASSUME IInv, Fork
  PROVE  IInv'
<1> USE DEF Fork
<1>1. /\ call \in Calls \ Fatal
      /\ ~ Working /\ base = Len(result)
      /\ base \in Nat
  BY DEF IInv, TypeOK, TeamInv, FoundInv, Working, Fatal
<1>2. TypeOK'
  BY <1>1, CallTypes DEF IInv, TypeOK
<1>3. TeamInv' /\ ColumnInv' /\ SpongeInv' /\ CriticalInv'
  BY <1>1, CallTypes DEF IInv, TeamInv, ColumnInv, SpongeInv, CriticalInv, Busy, Columns
<1>4. Working'
  BY TeamAssumption DEF Working
<1>5. Found' = {}
  BY <1>1 DEF Found
<1>6. ASSUME NEW p \in PlanetsOf[call]
      PROVE  ~ Passed(p)'
  BY <1>1, PlanetsMember DEF Passed, Location
<1>7. FoundInv'
  <2>1. \A i, j \in base'+1 .. Len(result') : FALSE
    BY <1>1
  <2> QED
    BY <1>4, <1>5, <1>6, <2>1 DEF FoundInv
<1>8. MineCorrect'
  BY DEF MineCorrect
<1> QED
  BY <1>2, <1>3, <1>7, <1>8 DEF IInv

-----------------------------------------------------------------------------
(***************************************************************************)
(* The steps of a thread.  A thread at work means a call is running, and   *)
(* gives the ranges of the call's fields.                                  *)
(***************************************************************************)
LEMMA TeamAtWork ==
  ASSUME IInv, NEW t \in Threads, pc[t] # "idle"
  PROVE  /\ host = "mining"
         /\ call \in Calls \ Fatal
         /\ Working
         /\ todo \subseteq Columns(call)
         /\ \A u \in Threads : pc[u] # "idle"
         /\ call.x \in Int /\ call.y \in Int /\ call.side \in Nat
         /\ Columns(call) \subseteq Int
<1>1. Working
  BY DEF Working
<1>2. host = "mining" /\ call \in Calls \ Fatal /\ todo \subseteq Columns(call)
      /\ \A u \in Threads : pc[u] # "idle"
  BY <1>1 DEF IInv, TeamInv
<1> QED
  BY <1>1, <1>2, CallTypes

(***************************************************************************)
(* A step that neither appends nor changes what is passed keeps FoundInv.  *)
(***************************************************************************)
LEMMA FoundKept ==
  ASSUME IInv, Working, Working', host = "mining",
         UNCHANGED <<host, call, base, result>>,
         \A p \in PlanetsOf[call] : Passed(p)' <=> Passed(p)
  PROVE  FoundInv' /\ MineCorrect'
<1>1. Found' = Found
  BY DEF Found
<1> QED
  BY <1>1 DEF IInv, FoundInv, MineCorrect

LEMMA TakeColumnInv ==
  ASSUME IInv, NEW t \in Threads, TakeColumn(t)
  PROVE  IInv'
<1>1. PICK cx \in todo :
        /\ pc[t] = "columns"
        /\ todo' = todo \ {cx}
        /\ x' = [x EXCEPT ![t] = cx]
        /\ sponge' = [sponge EXCEPT ![t] =
             Save(Mix(Inject(Reset(sponge[t]), WrapCoordinate(cx)), call.key))]
        /\ y' = [y EXCEPT ![t] = call.y]
        /\ pc' = [pc EXCEPT ![t] = "rows"]
        /\ UNCHANGED <<host, call, iter, base, result, slot>>
  BY DEF TakeColumn, AtColumn
<1>2. TypeOK
  BY DEF IInv
<1>3. /\ host = "mining"
      /\ call \in Calls \ Fatal
      /\ Working
      /\ todo \subseteq Columns(call)
      /\ \A u \in Threads : pc[u] # "idle"
      /\ call.x \in Int /\ call.y \in Int /\ call.side \in Nat
      /\ Columns(call) \subseteq Int
  BY <1>1, TeamAtWork
<1>4. /\ DOMAIN sponge'[t] = Fields
      /\ <<sponge'[t].snap_l, sponge'[t].snap_r>> = ColumnState(cx, call.key)
  <2>1. DOMAIN sponge[t] = Fields /\ t \in DOMAIN sponge
    BY <1>2 DEF TypeOK, Fields
  <2>2. sponge'[t] =
          Save(Mix(Inject(Reset(sponge[t]), WrapCoordinate(cx)), call.key))
    BY <1>1, <2>1
  <2> QED
    BY <2>1, <2>2, ColumnSponge
<1>5. \A u \in Threads : u # t => sponge'[u] = sponge[u] /\ x'[u] = x[u]
                                  /\ y'[u] = y[u] /\ pc'[u] = pc[u]
  BY <1>1, <1>2 DEF TypeOK
<1>6. pc'[t] = "rows" /\ x'[t] = cx /\ y'[t] = call.y
  BY <1>1, <1>2 DEF TypeOK
<1>7. TypeOK'
  <2>1. DOMAIN sponge' = Threads
    BY <1>1, <1>2 DEF TypeOK
  <2>2. \A u \in Threads : DOMAIN sponge'[u] = {"l", "r", "snap_l", "snap_r"}
    BY <1>2, <1>4, <1>5 DEF TypeOK, Fields
  <2> QED
    BY <1>1, <1>2, <1>3, <2>1, <2>2 DEF TypeOK
<1>8. Working'
  BY <1>6 DEF Working
<1>9. TeamInv'
  <2>1. \A u \in Threads : pc'[u] # "idle"
    BY <1>3, <1>5, <1>6
  <2>2. todo' \subseteq Columns(call)'
    BY <1>1, <1>3 DEF Columns
  <2> QED
    BY <1>1, <1>3, <2>1, <2>2 DEF TeamInv
<1>10. ColumnInv'
  BY <1>1, <1>3, <1>5, <1>6 DEF IInv, ColumnInv, Busy, Columns
<1>11. SpongeInv'
  BY <1>1, <1>4, <1>5, <1>6 DEF IInv, SpongeInv, Busy, Rows, Threshold
<1>12. CriticalInv'
  BY <1>1, <1>5, <1>6 DEF IInv, CriticalInv
<1>13. ASSUME NEW p \in PlanetsOf[call]
       PROVE  Passed(p)' <=> Passed(p)
  <2>1. p.x \in Columns(call) /\ p.y \in Rows(call)
    BY <1>3, PlanetsMember DEF Location
  <2>2. ~ (p.y < call.y)
    BY <1>3, <2>1 DEF Rows
  <2>3. ~ Busy(t)
    BY <1>1 DEF Busy
  <2>4. Busy(t)' /\ \A u \in Threads : u # t => (Busy(u)' <=> Busy(u))
    BY <1>5, <1>6 DEF Busy
  <2>5. CASE p.x = cx
    BY <1>1, <1>6, <2>2, <2>4, <2>5 DEF Passed
  <2>6. CASE p.x # cx
    BY <1>1, <1>5, <1>6, <2>3, <2>4, <2>6 DEF Passed
  <2> QED
    BY <2>5, <2>6
<1>14. FoundInv' /\ MineCorrect'
  BY <1>1, <1>3, <1>8, <1>13, FoundKept
<1> QED
  BY <1>7, <1>9, <1>10, <1>11, <1>12, <1>14 DEF IInv

LEMMA HashRowInv ==
  ASSUME IInv, NEW t \in Threads, HashRow(t)
  PROVE  IInv'
<1> DEFINE s == Mix(Inject(Restore(sponge[t]), WrapCoordinate(y[t])), call.key)
<1>1. /\ pc[t] = "rows"
      /\ y[t] < call.y + call.side
      /\ sponge' = [sponge EXCEPT ![t] = s]
      /\ UNCHANGED <<host, call, iter, base, result, todo, x, slot>>
  BY DEF HashRow, AtRow, NextRow
<1>2. \/ /\ IsPlanet(Result(s), Threshold(call))
         /\ pc' = [pc EXCEPT ![t] = "enter"]
         /\ y' = y
      \/ /\ ~ IsPlanet(Result(s), Threshold(call))
         /\ y' = [y EXCEPT ![t] = y[t] + 1]
         /\ pc' = pc
  BY DEF HashRow, AtRow, NextRow
<1>3. TypeOK
  BY DEF IInv
<1>4. /\ host = "mining"
      /\ call \in Calls \ Fatal
      /\ Working
      /\ \A u \in Threads : pc[u] # "idle"
      /\ call.y \in Int /\ call.side \in Nat
  BY <1>1, TeamAtWork
<1>5. /\ x[t] \in Columns(call)
      /\ y[t] \in Rows(call) /\ y[t] \in Int
      /\ <<sponge[t].snap_l, sponge[t].snap_r>> = ColumnState(x[t], call.key)
  BY <1>1, <1>3, <1>4 DEF IInv, TypeOK, ColumnInv, SpongeInv, Busy, Rows
<1>6. /\ DOMAIN s = Fields
      /\ <<s.snap_l, s.snap_r>> = ColumnState(x[t], call.key)
      /\ Result(s) = PlanetHash(x[t], y[t], call.key)
  <2>1. DOMAIN sponge[t] = Fields
    BY <1>3 DEF TypeOK, Fields
  <2> QED
    BY <1>5, <2>1, RowSponge
<1> HIDE DEF s
<1>7. sponge'[t] = s
  BY <1>1, <1>3 DEF TypeOK
<1>8. \A u \in Threads : u # t => sponge'[u] = sponge[u] /\ y'[u] = y[u]
                                  /\ pc'[u] = pc[u]
  BY <1>1, <1>2, <1>3 DEF TypeOK
<1>9. \/ /\ IsPlanet(Result(s), Threshold(call))
         /\ pc'[t] = "enter" /\ y'[t] = y[t]
      \/ /\ ~ IsPlanet(Result(s), Threshold(call))
         /\ pc'[t] = "rows" /\ y'[t] = y[t] + 1
  BY <1>1, <1>2, <1>3 DEF TypeOK
<1>10. \A u \in Threads : Busy(u)' <=> Busy(u)
  BY <1>1, <1>8, <1>9 DEF Busy
<1>11. TypeOK'
  <2>1. DOMAIN sponge' = Threads
    BY <1>1, <1>3 DEF TypeOK
  <2>2. \A u \in Threads : DOMAIN sponge'[u] = {"l", "r", "snap_l", "snap_r"}
    BY <1>3, <1>6, <1>7, <1>8 DEF TypeOK, Fields
  <2>3. pc' \in [Threads -> {"idle", "columns", "rows", "enter", "push"}]
    BY <1>2, <1>3 DEF TypeOK
  <2>4. y[t] + 1 \in Int
    BY <1>5
  <2>5. y' \in [Threads -> Int]
    BY <1>2, <1>3, <2>4 DEF TypeOK
  <2> QED
    BY <1>1, <1>3, <2>1, <2>2, <2>3, <2>5 DEF TypeOK
<1>12. Working' /\ \A u \in Threads : pc'[u] # "idle"
  BY <1>4, <1>8, <1>9 DEF Working
<1>13. TeamInv'
  BY <1>1, <1>4, <1>12 DEF IInv, TeamInv, Columns
<1>14. ColumnInv'
  <2>1. y'[t] \in call.y .. call.y + call.side
    BY <1>1, <1>4, <1>5, <1>9 DEF Rows
  <2>2. \A u \in Threads : Busy(u) => y'[u] \in call.y .. call.y + call.side
    BY <1>8, <2>1 DEF IInv, ColumnInv
  <2> QED
    BY <1>1, <1>10, <2>2 DEF IInv, ColumnInv, Columns
<1>15. SpongeInv'
  <2> SUFFICES ASSUME NEW u \in Threads
               PROVE  /\ Busy(u)' =>
                           <<sponge'[u].snap_l, sponge'[u].snap_r>> =
                              ColumnState(x[u], call.key)
                      /\ pc'[u] \in {"enter", "push"} =>
                           /\ y'[u] \in Rows(call)
                           /\ Result(sponge'[u]) =
                                PlanetHash(x[u], y'[u], call.key)
                           /\ IsPlanet(Result(sponge'[u]), Threshold(call))
    BY <1>1 DEF SpongeInv, Rows, Threshold, Result
  <2>1. CASE u = t
    BY <1>5, <1>6, <1>7, <1>9, <2>1
  <2>2. CASE u # t
    BY <1>8, <1>10, <2>2 DEF IInv, SpongeInv
  <2> QED
    BY <2>1, <2>2
<1>16. CriticalInv'
  BY <1>1, <1>8, <1>9 DEF IInv, CriticalInv
<1>17. ASSUME NEW p \in PlanetsOf[call]
       PROVE  Passed(p)' <=> Passed(p)
  <2>1. CASE IsPlanet(Result(s), Threshold(call))
    <3>1. \A u \in Threads : y'[u] = y[u]
      BY <1>8, <1>9, <2>1
    <3> QED
      BY <1>1, <1>10, <3>1 DEF Passed
  <2>2. CASE ~ IsPlanet(Result(s), Threshold(call))
    <3>1. y'[t] = y[t] + 1
      BY <1>9, <2>2
    <3>2. PICK px \in Columns(call), py \in Rows(call) :
            /\ IsPlanet(PlanetHash(px, py, call.key), Threshold(call))
            /\ p.x = px /\ p.y = py
      BY <1>4, PlanetsMember DEF Location
    <3>3. ~ (p.x = x[t] /\ p.y = y[t])
      BY <1>6, <2>2, <3>2
    <3>4. p.y \in Int
      BY <1>4, <3>2 DEF Rows
    <3>5. p.x = x[t] => (p.y < y'[t] <=> p.y < y[t])
      BY <1>5, <3>1, <3>3, <3>4
    <3>6. \A u \in Threads : p.x = x[u] => (p.y < y'[u] <=> p.y < y[u])
      BY <1>8, <3>5
    <3> QED
      BY <1>1, <1>10, <3>6 DEF Passed
  <2> QED
    BY <2>1, <2>2
<1>18. FoundInv' /\ MineCorrect'
  BY <1>1, <1>4, <1>12, <1>17, FoundKept
<1> QED
  BY <1>11, <1>13, <1>14, <1>15, <1>16, <1>18 DEF IInv

LEMMA EndColumnInv ==
  ASSUME IInv, NEW t \in Threads, EndColumn(t)
  PROVE  IInv'
<1>1. /\ pc[t] = "rows"
      /\ y[t] >= call.y + call.side
      /\ pc' = [pc EXCEPT ![t] = "columns"]
      /\ UNCHANGED <<host, call, iter, base, result, todo, x, y, sponge, slot>>
  BY DEF EndColumn
<1>2. TypeOK
  BY DEF IInv
<1>3. /\ host = "mining"
      /\ call \in Calls \ Fatal
      /\ Working
      /\ \A u \in Threads : pc[u] # "idle"
      /\ call.y \in Int /\ call.side \in Nat
  BY <1>1, TeamAtWork
<1>4. pc'[t] = "columns" /\ \A u \in Threads : u # t => pc'[u] = pc[u]
  BY <1>1, <1>2 DEF TypeOK
<1>5. \A u \in Threads : Busy(u)' <=> Busy(u) /\ u # t
  BY <1>4 DEF Busy
<1>6. TypeOK'
  BY <1>1, <1>2 DEF TypeOK
<1>7. Working' /\ \A u \in Threads : pc'[u] # "idle"
  BY <1>3, <1>4 DEF Working
<1>8. TeamInv'
  BY <1>1, <1>3, <1>7 DEF IInv, TeamInv, Columns
<1>9. ColumnInv' /\ CriticalInv'
  BY <1>1, <1>4, <1>5 DEF IInv, ColumnInv, CriticalInv, Columns
<1>10. SpongeInv'
  BY <1>1, <1>4, <1>5 DEF IInv, SpongeInv, Rows, Threshold, Result
<1>11. ASSUME NEW p \in PlanetsOf[call]
       PROVE  Passed(p)' <=> Passed(p)
  <2>1. p.y \in Rows(call)
    BY <1>3, PlanetsMember DEF Location
  <2>2. p.y < y[t]
    BY <1>1, <1>2, <1>3, <2>1 DEF TypeOK, Rows
  <2> QED
    BY <1>1, <1>5, <2>2 DEF Passed
<1>12. FoundInv' /\ MineCorrect'
  BY <1>1, <1>3, <1>7, <1>11, FoundKept
<1> QED
  BY <1>6, <1>8, <1>9, <1>10, <1>12 DEF IInv

LEMMA EnterCriticalInv ==
  ASSUME IInv, NEW t \in Threads, EnterCritical(t)
  PROVE  IInv'
<1>1. /\ pc[t] = "enter"
      /\ \A u \in Threads : pc[u] # "push"
      /\ pc' = [pc EXCEPT ![t] = "push"]
      /\ slot' = [slot EXCEPT ![t] = Len(result)]
      /\ UNCHANGED <<host, call, iter, base, result, todo, x, y, sponge>>
  BY DEF EnterCritical, Unlocked
<1>2. TypeOK
  BY DEF IInv
<1>3. /\ host = "mining"
      /\ call \in Calls \ Fatal
      /\ Working
      /\ \A u \in Threads : pc[u] # "idle"
  BY <1>1, TeamAtWork
<1>4. /\ pc'[t] = "push" /\ slot'[t] = Len(result)
      /\ \A u \in Threads : u # t => pc'[u] = pc[u] /\ slot'[u] = slot[u]
  BY <1>1, <1>2 DEF TypeOK
<1>5. \A u \in Threads : Busy(u)' <=> Busy(u)
  BY <1>1, <1>4 DEF Busy
<1>6. TypeOK'
  <2>1. Len(result) \in Nat
    BY <1>2 DEF TypeOK
  <2> QED
    BY <1>1, <1>2, <2>1 DEF TypeOK
<1>7. Working' /\ \A u \in Threads : pc'[u] # "idle"
  BY <1>3, <1>4 DEF Working
<1>8. TeamInv'
  BY <1>1, <1>3, <1>7 DEF IInv, TeamInv, Columns
<1>9. ColumnInv'
  BY <1>1, <1>5 DEF IInv, ColumnInv, Columns
<1>10. SpongeInv'
  BY <1>1, <1>4, <1>5 DEF IInv, SpongeInv, Rows, Threshold, Result
<1>11. CriticalInv'
  BY <1>1, <1>4 DEF CriticalInv
<1>12. \A p \in PlanetsOf[call] : Passed(p)' <=> Passed(p)
  BY <1>1, <1>5 DEF Passed
<1>13. FoundInv' /\ MineCorrect'
  BY <1>1, <1>3, <1>7, <1>12, FoundKept
<1> QED
  BY <1>6, <1>8, <1>9, <1>10, <1>11, <1>13 DEF IInv

(***************************************************************************)
(* PushBack appends one planet of the chunk, which the vector has not got  *)
(* from this call yet.                                                     *)
(***************************************************************************)
LEMMA PushBackAppends ==
  ASSUME IInv, NEW t \in Threads, PushBack(t),
         NEW L, L = Location(x[t], y[t], Result(sponge[t]))
  PROVE  /\ L \in PlanetsOf[call]
         /\ L.x = x[t] /\ L.y = y[t]
         /\ L \notin Found
         /\ result' = Append(result, L)
<1>1. /\ pc[t] = "push"
      /\ result' = [i \in 1 .. slot[t] + 1 |->
                      IF i <= slot[t] THEN result[i] ELSE L]
  BY DEF PushBack, NextRow
<1>2. call \in Calls \ Fatal /\ Working
  BY <1>1, TeamAtWork
<1>3. L.x = x[t] /\ L.y = y[t]
  BY DEF Location
<1>4. /\ x[t] \in Columns(call) /\ y[t] \in Rows(call) /\ Busy(t)
      /\ Result(sponge[t]) = PlanetHash(x[t], y[t], call.key)
      /\ IsPlanet(Result(sponge[t]), Threshold(call))
  BY <1>1 DEF IInv, ColumnInv, SpongeInv, Busy
<1>5. L \in PlanetsOf[call]
  BY <1>2, <1>4, PlanetsMember
<1>6. ~ Passed(L)
  <2>1. y[t] \in Int
    BY DEF IInv, TypeOK
  <2> QED
    BY <1>3, <1>4, <2>1 DEF Passed
<1>7. L \notin Found
  BY <1>2, <1>6 DEF IInv, FoundInv
<1>8. result' = Append(result, L)
  <2>1. slot[t] = Len(result) /\ result \in Seq(Locations)
    BY <1>1 DEF IInv, CriticalInv, TypeOK
  <2>2. result' = [i \in 1 .. Len(result) + 1 |->
                     IF i <= Len(result) THEN result[i] ELSE L]
    BY <1>1, <2>1
  <2>3. L \in Locations
    BY <1>2, <1>5 DEF Locations
  <2>4. Append(result, L) \in Seq(Locations)
    BY <2>1, <2>3
  <2>5. Len(Append(result, L)) = Len(result) + 1
    BY <2>1
  <2>6. DOMAIN Append(result, L) = 1 .. Len(result) + 1
    BY <2>4, <2>5
  <2>7. \A i \in 1 .. Len(result) + 1 :
          Append(result, L)[i] = IF i <= Len(result) THEN result[i] ELSE L
    BY <2>1
  <2> QED
    BY <2>1, <2>2, <2>4, <2>6, <2>7
<1> QED
  BY <1>3, <1>5, <1>7, <1>8

(***************************************************************************)
(* Appending an element to a vector.                                       *)
(***************************************************************************)
LEMMA AppendFound ==
  ASSUME TypeOK, NEW L \in Locations, result' = Append(result, L), base' = base
  PROVE  /\ result' \in Seq(Locations)
         /\ base \in 0 .. Len(result')
         /\ Found' = Found \cup {L}
         /\ ( /\ L \notin Found
              /\ \A i, j \in base+1 .. Len(result) :
                   result[i] = result[j] => i = j )
            => \A i, j \in base+1 .. Len(result') :
                 result'[i] = result'[j] => i = j
<1> DEFINE n == Len(result)
<1>1. result \in Seq(Locations) /\ n \in Nat /\ base \in 0 .. n
  BY DEF TypeOK
<1>2. result' \in Seq(Locations) /\ Len(result') = n + 1
  BY <1>1
<1>3. result'[n + 1] = L /\ \A i \in 1 .. n : result'[i] = result[i]
  BY <1>1
<1> HIDE DEF n
<1>4. base+1 .. n+1 = (base+1 .. n) \cup {n+1}
  BY <1>1
<1>5. \A i \in base+1 .. n : result'[i] = result[i]
  <2>1. base+1 .. n \subseteq 1 .. n
    BY <1>1
  <2> QED
    BY <1>3, <2>1
<1>6. Found' = Found \cup {L}
  <2>1. Found' = {result'[i] : i \in base+1 .. n+1}
    BY <1>2 DEF Found
  <2>2. Found = {result[i] : i \in base+1 .. n}
    BY DEF Found, n
  <2>3. Found' = {result'[i] : i \in base+1 .. n} \cup {result'[n+1]}
    BY <1>4, <2>1
  <2>4. {result'[i] : i \in base+1 .. n} = Found
    BY <1>5, <2>2
  <2> QED
    BY <1>3, <2>3, <2>4
<1>7. ASSUME L \notin Found,
             \A i, j \in base+1 .. n : result[i] = result[j] => i = j,
             NEW i \in base+1 .. n+1, NEW j \in base+1 .. n+1,
             result'[i] = result'[j]
      PROVE  i = j
  <2>1. \A k \in base+1 .. n : result[k] # L
    BY <1>7 DEF Found, n
  <2> QED
    BY <1>3, <1>4, <1>5, <1>7, <2>1
<1>8. base \in 0 .. n + 1
  BY <1>1
<1> QED
  BY <1>2, <1>6, <1>7, <1>8 DEF n

LEMMA PushBackInv ==
  ASSUME IInv, NEW t \in Threads, PushBack(t)
  PROVE  IInv'
<1> DEFINE L == Location(x[t], y[t], Result(sponge[t]))
<1>1. /\ pc[t] = "push"
      /\ pc' = [pc EXCEPT ![t] = "rows"]
      /\ y' = [y EXCEPT ![t] = y[t] + 1]
      /\ UNCHANGED <<host, call, iter, base, todo, x, sponge, slot>>
  BY DEF PushBack, NextRow
<1>2. TypeOK
  BY DEF IInv
<1>3. /\ host = "mining"
      /\ call \in Calls \ Fatal
      /\ Working
      /\ \A u \in Threads : pc[u] # "idle"
      /\ call.y \in Int /\ call.side \in Nat
  BY <1>1, TeamAtWork
<1>4. /\ L \in PlanetsOf[call] /\ L.x = x[t] /\ L.y = y[t]
      /\ L \notin Found
      /\ result' = Append(result, L)
  BY PushBackAppends
<1>5. L \in Locations
  BY <1>3, <1>4 DEF Locations
<1>6. /\ x[t] \in Columns(call) /\ y[t] \in Rows(call) /\ y[t] \in Int
      /\ Busy(t)
      /\ \A u \in Threads : Busy(u) /\ x[u] = x[t] => u = t
  BY <1>1, <1>2 DEF IInv, TypeOK, ColumnInv, SpongeInv, Busy
<1>7. L = Location(x[t], y[t], PlanetHash(x[t], y[t], call.key))
  BY <1>1 DEF IInv, SpongeInv
<1> HIDE DEF L
<1>8. /\ result' \in Seq(Locations) /\ base \in 0 .. Len(result')
      /\ Found' = Found \cup {L}
      /\ \A i, j \in base+1 .. Len(result') : result'[i] = result'[j] => i = j
  BY <1>1, <1>2, <1>4, <1>5, AppendFound DEF IInv, FoundInv
<1>9. /\ pc'[t] = "rows" /\ y'[t] = y[t] + 1
      /\ \A u \in Threads : u # t => pc'[u] = pc[u] /\ y'[u] = y[u]
  BY <1>1, <1>2 DEF TypeOK
<1>10. \A u \in Threads : Busy(u)' <=> Busy(u)
  BY <1>1, <1>9 DEF Busy
<1>11. TypeOK'
  <2>1. y[t] + 1 \in Int
    BY <1>6
  <2>2. y' \in [Threads -> Int]
    BY <1>1, <1>2, <2>1 DEF TypeOK
  <2>3. pc' \in [Threads -> {"idle", "columns", "rows", "enter", "push"}]
    BY <1>1, <1>2 DEF TypeOK
  <2> QED
    BY <1>1, <1>2, <1>8, <2>2, <2>3 DEF TypeOK
<1>12. Working' /\ \A u \in Threads : pc'[u] # "idle"
  BY <1>3, <1>9 DEF Working
<1>13. TeamInv'
  BY <1>1, <1>3, <1>12 DEF IInv, TeamInv, Columns
<1>14. ColumnInv'
  <2>1. y'[t] \in call.y .. call.y + call.side
    BY <1>3, <1>6, <1>9 DEF Rows
  <2>2. \A u \in Threads : Busy(u) => y'[u] \in call.y .. call.y + call.side
    BY <1>9, <2>1 DEF IInv, ColumnInv
  <2> QED
    BY <1>1, <1>10, <2>2 DEF IInv, ColumnInv, Columns
<1>15. SpongeInv'
  BY <1>1, <1>9, <1>10 DEF IInv, SpongeInv, Rows, Threshold, Result
<1>16. CriticalInv'
  BY <1>1, <1>9 DEF IInv, CriticalInv
<1>17. ASSUME NEW p \in PlanetsOf[call]
       PROVE  Passed(p)' <=> Passed(p) \/ p = L
  <2>1. PICK px \in Columns(call), py \in Rows(call) :
          p = Location(px, py, PlanetHash(px, py, call.key))
    BY <1>3, PlanetsMember
  <2>2. p.x = px /\ p.y = py /\ p.y \in Int
    BY <1>3, <2>1 DEF Location, Rows
  <2>3. p = L <=> p.x = x[t] /\ p.y = y[t]
    BY <1>4, <1>7, <2>1, <2>2
  <2>4. x[t] \notin todo
    BY <1>6 DEF IInv, ColumnInv
  <2>5. CASE p.x = x[t]
    <3>1. Passed(p) <=> p.y < y[t]
      BY <1>6, <2>4, <2>5 DEF Passed
    <3>2. Passed(p)' <=> p.y < y[t] + 1
      BY <1>1, <1>6, <1>9, <1>10, <2>4, <2>5 DEF Passed
    <3> QED
      BY <1>6, <2>2, <2>3, <2>5, <3>1, <3>2
  <2>6. CASE p.x # x[t]
    BY <1>1, <1>9, <1>10, <2>3, <2>6 DEF Passed
  <2> QED
    BY <2>5, <2>6
<1>18. FoundInv'
  <2>1. Found = {p \in PlanetsOf[call] : Passed(p)}
    BY <1>3 DEF IInv, FoundInv
  <2>2. Found' = {p \in PlanetsOf[call] : Passed(p)'}
    BY <1>4, <1>8, <1>17, <2>1
  <2> QED
    BY <1>1, <1>8, <1>12, <2>2 DEF FoundInv
<1>19. MineCorrect'
  BY <1>1, <1>3 DEF MineCorrect
<1> QED
  BY <1>11, <1>13, <1>14, <1>15, <1>16, <1>18, <1>19 DEF IInv

(***************************************************************************)
(* Join: no column is left and no thread is in one, so every planet has    *)
(* been passed.                                                            *)
(***************************************************************************)
LEMMA JoinAll ==
  ASSUME IInv, Join
  PROVE  call \in Calls \ Fatal /\ Found = PlanetsOf[call]
<1>1. PICK t \in Threads : pc[t] = "columns"
  BY TeamAssumption DEF Join, Arrived
<1>2. call \in Calls \ Fatal /\ Working
  BY <1>1, TeamAtWork
<1>3. \A p \in PlanetsOf[call] : Passed(p)
  BY DEF Join, Arrived, Passed, Busy
<1> QED
  BY <1>2, <1>3 DEF IInv, FoundInv

LEMMA JoinInv ==
  ASSUME IInv, Join
  PROVE  IInv'
<1> USE DEF Join, Arrived
<1>1. call \in Calls \ Fatal /\ Found = PlanetsOf[call]
  BY JoinAll
<1>2. ~ Working' /\ \A t \in Threads : pc'[t] = "idle"
  BY DEF Working
<1>3. TypeOK'
  <2>1. \A t \in Threads : DOMAIN sponge'[t] = {"l", "r", "snap_l", "snap_r"}
    BY DEF NewSponge
  <2> QED
    BY <2>1 DEF IInv, TypeOK
<1>4. TeamInv' /\ ColumnInv' /\ SpongeInv' /\ CriticalInv'
  BY <1>1, <1>2 DEF TeamInv, ColumnInv, SpongeInv, CriticalInv, Busy
<1>5. Found' = Found
  BY DEF Found
<1>6. FoundInv' /\ MineCorrect'
  BY <1>1, <1>2, <1>5 DEF IInv, FoundInv, MineCorrect
<1> QED
  BY <1>3, <1>4, <1>6 DEF IInv

-----------------------------------------------------------------------------
LEMMA NextInv == IInv /\ [Next]_vars => IInv'
<1> SUFFICES ASSUME IInv, [Next]_vars PROVE IInv'
  OBVIOUS
<1>1. CASE \E c \in Calls : MineSingle(c)
  BY <1>1, MineSingleInv
<1>2. CASE BenchmarkAgain
  BY <1>2, BenchmarkAgainInv
<1>3. CASE MineStep
  BY <1>3, DivideByZeroInv, ForkInv, JoinInv DEF MineStep
<1>4. CASE \E t \in Threads : ThreadStep(t)
  BY <1>4, TakeColumnInv, HashRowInv, EndColumnInv, EnterCriticalInv,
     PushBackInv DEF ThreadStep
<1>5. CASE UNCHANGED vars
  <2> USE <1>5 DEF vars
  <2>1. TypeOK' /\ TeamInv'
    BY DEF IInv, TypeOK, TeamInv, Working, Columns
  <2>2. ColumnInv' /\ CriticalInv'
    BY DEF IInv, ColumnInv, CriticalInv, Busy, Columns
  <2>3. SpongeInv'
    BY DEF IInv, SpongeInv, Busy, Rows, Threshold, Result
  <2>4. FoundInv' /\ MineCorrect'
    BY DEF IInv, FoundInv, MineCorrect, Working, Found, Passed, Busy
  <2> QED
    BY <2>1, <2>2, <2>3, <2>4 DEF IInv
<1> QED
  BY <1>1, <1>2, <1>3, <1>4, <1>5 DEF Next

(***************************************************************************)
(* The strengthened invariant holds of every execution: the vector always  *)
(* holds exactly the planets the team has walked past.                     *)
(***************************************************************************)
THEOREM AlwaysIInv == Spec => []IInv
<1>1. Init => IInv
  BY InitInv
<1>2. IInv /\ [Next]_vars => IInv'
  BY NextInv
<1> QED
  BY <1>1, <1>2, PTL DEF Spec

(***************************************************************************)
(* Type correctness of CpuMiner::mine's state.                             *)
(***************************************************************************)
THEOREM TypeCorrect == Spec => []TypeOK
<1>1. IInv => TypeOK
  BY DEF IInv
<1> QED
  BY <1>1, AlwaysIInv, PTL

(***************************************************************************)
(* When CpuMiner::mine returns, the caller's vector has gained exactly the *)
(* planets of the chunk, each once, for every team, chunk and field.       *)
(***************************************************************************)
THEOREM MineIsCorrect == Spec => []MineCorrect
<1>1. IInv => MineCorrect
  BY DEF IInv
<1> QED
  BY <1>1, AlwaysIInv, PTL

(***************************************************************************)
(* A step of the team is a step of the contract or leaves the caller's     *)
(* view alone.                                                             *)
(***************************************************************************)
LEMMA ContractStep ==
  ASSUME IInv, [Next]_vars
  PROVE  [Contract!Next]_(Contract!vars)
<1>1. ASSUME NEW c \in Calls, MineSingle(c)
      PROVE  Contract!Begin(c)
  BY <1>1 DEF MineSingle, Contract!Begin
<1>2. CASE BenchmarkAgain
  BY <1>2 DEF BenchmarkAgain, Contract!Next, Contract!BeginAgain
<1>3. CASE DivideByZero
  <2>1. call \in Fatal
    BY <1>3 DEF DivideByZero, IInv, TeamInv, Fatal
  <2> QED
    BY <1>3, <2>1 DEF DivideByZero, Contract!Next, Contract!Abort
<1>4. CASE Fork
  BY <1>4 DEF Fork, Contract!vars
<1>5. CASE Join
  <2>1. call \in DOMAIN PlanetsOf /\ Found = PlanetsOf[call]
    BY <1>5, JoinAll DEF PlanetsOf
  <2> QED
    BY <1>5, <2>1 DEF Join, Arrived, Contract!Next, Contract!Return,
       Found, Contract!Found
<1>6. ASSUME NEW t \in Threads,
             TakeColumn(t) \/ HashRow(t) \/ EndColumn(t) \/ EnterCritical(t)
      PROVE  UNCHANGED Contract!vars
  BY <1>6 DEF TakeColumn, AtColumn, HashRow, AtRow, NextRow, EndColumn, EnterCritical, Unlocked, Contract!vars
<1>7. ASSUME NEW t \in Threads, PushBack(t)
      PROVE  Contract!Find
  <2> DEFINE L == Location(x[t], y[t], Result(sponge[t]))
  <2>1. /\ L \in PlanetsOf[call] /\ L \notin Found
        /\ result' = Append(result, L)
    BY <1>7, PushBackAppends
  <2>2. host = "mining" /\ call \in DOMAIN PlanetsOf
    BY <1>7, TeamAtWork DEF PushBack, NextRow, PlanetsOf
  <2>3. UNCHANGED <<host, call, iter, base>>
    BY <1>7 DEF PushBack, NextRow
  <2> QED
    BY <2>1, <2>2, <2>3 DEF Contract!Find, Found, Contract!Found
<1>8. CASE UNCHANGED vars
  BY <1>8 DEF vars, Contract!vars
<1> QED
  BY <1>1, <1>2, <1>3, <1>4, <1>5, <1>6, <1>7, <1>8
     DEF Next, MineStep, ThreadStep, Contract!Next

(***************************************************************************)
(* The OpenMP miner implements the contract of common::Miner.              *)
(***************************************************************************)
THEOREM ImplementsContract == Spec => KeepsContract
<1>1. Init => Contract!Init
  BY DEF Init, Contract!Init
<1>2. IInv /\ [Next]_vars => [Contract!Next]_(Contract!vars)
  BY ContractStep
<1> QED
  BY <1>1, <1>2, AlwaysIInv, PTL DEF Spec, KeepsContract, Contract!Spec
=============================================================================
