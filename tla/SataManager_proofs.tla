-------------------------- MODULE SataManager_proofs --------------------------
(***************************************************************************)
(* The task windows, for any width of the status word, any numbers of      *)
(* buffers and any number of tasks, as long as the ids do not wrap: pages  *)
(* go to the host in order and with the right data, the data of a write is *)
(* intact while its thread runs, no assertion fails, and both windows are  *)
(* ordered windows of tasks.                                               *)
(***************************************************************************)
EXTENDS SataManager, FiniteSetTheorems, FunctionTheorems, TLAPS

(***************************************************************************)
(* Remainders: numbers that are less than n apart and leave the same one   *)
(* are equal; counting modulo n.                                           *)
(***************************************************************************)
LEMMA DivMod ==
  ASSUME NEW n \in Nat \ {0}, NEW a \in Nat
  PROVE  a \div n \in Nat /\ a % n \in 0 .. n - 1 /\ a = n * (a \div n) + (a % n)
  OBVIOUS

LEMMA ModSame ==
  ASSUME NEW n \in Nat \ {0}, NEW a \in Nat, NEW b \in Nat, a % n = b % n,
         a - b < n, b - a < n
  PROVE  a = b
<1> DEFINE q == a \div n
           r == b \div n
<1>1. a \div n \in Nat /\ a % n \in 0 .. n - 1 /\ a = n * (a \div n) + (a % n)
  BY DivMod
<1>5. b \div n \in Nat /\ b = n * (b \div n) + (b % n)
  BY DivMod
<1> DEFINE m == a % n
<1>6. q \in Nat /\ r \in Nat /\ m \in Nat /\ a = n * q + m /\ b = n * r + m
  BY <1>1, <1>5
<1> HIDE DEF q, r, m
<1>2. CASE q < r
  <2>1. n * r >= n * q + n
    BY <1>6, <1>2
  <2>2. QED BY <1>6, <2>1
<1>3. CASE r < q
  <2>1. n * q >= n * r + n
    BY <1>6, <1>3
  <2>2. QED BY <1>6, <2>1
<1>4. CASE q = r
  BY <1>6, <1>4
<1>7. QED BY <1>6, <1>2, <1>3, <1>4

LEMMA ModUnique ==
  ASSUME NEW n \in Nat \ {0}, NEW q \in Nat, NEW r \in 0 .. n - 1
  PROVE  (n * q + r) % n = r
<1> DEFINE a == n * q + r
<1>1. a \in Nat
  OBVIOUS
<1>2. a \div n \in Nat /\ a % n \in 0 .. n - 1 /\ a = n * (a \div n) + (a % n)
  BY <1>1, DivMod
<1> DEFINE p == a \div n
           m == a % n
<1>3. p \in Nat /\ m \in 0 .. n - 1 /\ n * q + r = n * p + m
  BY <1>2
<1> HIDE DEF p, m
<1>4. CASE p < q
  <2>1. n * q >= n * p + n
    BY <1>3, <1>4
  <2>2. QED BY <1>3, <2>1
<1>5. CASE q < p
  <2>1. n * p >= n * q + n
    BY <1>3, <1>5
  <2>2. QED BY <1>3, <2>1
<1>6. CASE p = q
  <2>1. m = r
    BY <1>3, <1>6
  <2>2. QED BY <2>1 DEF m
<1>7. QED BY <1>3, <1>4, <1>5, <1>6

LEMMA ModSmall == ASSUME NEW n \in Nat \ {0}, NEW a \in 0 .. n - 1 PROVE a % n = a
<1>1. n * 0 + a = a
  OBVIOUS
<1>2. QED BY <1>1, ModUnique

LEMMA ModNext ==
  ASSUME NEW n \in Nat \ {0}, NEW a \in Nat
  PROVE  ((a % n) + 1) % n = (a + 1) % n
<1> DEFINE q == a \div n
           r == a % n
<1>1. q \in Nat /\ r \in 0 .. n - 1 /\ a = n * q + r
  BY DivMod
<1> HIDE DEF q, r
<1>2. CASE r + 1 < n
  <2>1. r + 1 \in 0 .. n - 1 /\ a + 1 = n * q + (r + 1)
    BY <1>1, <1>2
  <2>2. (a + 1) % n = r + 1 /\ (r + 1) % n = r + 1
    BY <1>1, <2>1, ModUnique, ModSmall
  <2>3. QED BY <2>2 DEF r
<1>3. CASE r + 1 = n
  <2>1. a + 1 = n * (q + 1) + 0 /\ n = n * 1 + 0 /\ 0 \in 0 .. n - 1 /\ q + 1 \in Nat
    BY <1>1, <1>3
  <2>2. (n * (q + 1) + 0) % n = 0
    BY <2>1, ModUnique
  <2>3. (n * 1 + 0) % n = 0
    BY <2>1, ModUnique
  <2>4. n % n = 0
    BY <2>1, <2>3
  <2>5. QED BY <1>3, <2>1, <2>2, <2>4 DEF r
<1>4. QED BY <1>1, <1>2, <1>3

LEMMA ModWrap ==
  ASSUME NEW n \in Nat \ {0}, NEW a \in Nat
  PROVE  (a + n) % n = a % n
<1> DEFINE q == a \div n
           r == a % n
<1>1. q \in Nat /\ r \in 0 .. n - 1 /\ a = n * q + r
  BY DivMod
<1> HIDE DEF q, r
<1>2. a + n = n * (q + 1) + r /\ q + 1 \in Nat
  BY <1>1
<1>3. (n * (q + 1) + r) % n = r
  BY <1>1, <1>2, ModUnique
<1>4. QED BY <1>2, <1>3 DEF r

(***************************************************************************)
(* One window.  The ids between finish and accept are at most Window, so   *)
(* that each has a bit of its own; the bit is set when the task has ended  *)
(* and an earlier one has not.                                             *)
(***************************************************************************)
Open(w) == w.finish .. w.accept - 1

WindowInv(w, running) ==
    /\ w \in [accept : Nat, finish : Nat, status : SUBSET (0 .. Window - 1)]
    /\ w.finish <= w.accept /\ w.accept <= w.finish + Window /\ w.accept < Ids
    /\ running \subseteq Open(w)
    /\ \A id \in Open(w) : id \in running <=> id % Window \notin w.status
    /\ \A x \in w.status : \E id \in Open(w) : x = id % Window
    /\ w.finish < w.accept => w.finish % Window \notin w.status

LEMMA OwnBit ==
  \A a, b \in Nat : a - b < Window /\ b - a < Window /\ a % Window = b % Window => a = b
BY WidthAssumption, ModSame

LEMMA IdStays == \A a \in Nat : a < Ids => a % Ids = a
BY WidthAssumption, ModSmall

LEMMA PendingIs ==
  ASSUME NEW w, NEW running, WindowInv(w, running)
  PROVE  Pending(w) = w.accept - w.finish
<1>1. w.accept - w.finish \in Nat /\ w.accept - w.finish < Ids
  BY WidthAssumption DEF WindowInv
<1>2. QED BY <1>1, IdStays DEF Pending

\* A task is accepted: its bit is free, and only its own.
LEMMA AcceptWindow ==
  ASSUME NEW w, NEW running, WindowInv(w, running), HasRoom(w), w.accept + 1 < Ids
  PROVE  /\ w.accept % Window \notin w.status
         /\ Accepted(w) = [w EXCEPT !.accept = @ + 1]
         /\ WindowInv(Accepted(w), running \cup {w.accept})
         /\ DoneIn(Accepted(w)) = DoneIn(w)
<1>1. w \in [accept : Nat, finish : Nat, status : SUBSET (0 .. Window - 1)]
      /\ w.finish <= w.accept /\ w.accept < w.finish + Window
  <2>1. w.accept - w.finish < Window
    BY PendingIs DEF HasRoom
  <2>2. QED BY <2>1, WidthAssumption DEF WindowInv
<1>2. w.accept % Window \notin w.status
  <2>1. SUFFICES ASSUME w.accept % Window \in w.status PROVE FALSE
    OBVIOUS
  <2>2. PICK id \in Open(w) : w.accept % Window = id % Window
    BY <2>1 DEF WindowInv
  <2>3. id \in Nat /\ id < w.accept /\ w.accept - id < Window
    BY <1>1, WidthAssumption DEF Open
  <2>4. QED BY <1>1, <2>2, <2>3, OwnBit, WidthAssumption
<1>3. Accepted(w) = [w EXCEPT !.accept = @ + 1]
  BY <1>1, IdStays DEF Accepted
<1> DEFINE v == [w EXCEPT !.accept = @ + 1]
<1>4. v \in [accept : Nat, finish : Nat, status : SUBSET (0 .. Window - 1)]
      /\ v.accept = w.accept + 1 /\ v.finish = w.finish /\ v.status = w.status
  BY <1>1
<1> HIDE DEF v
<1>5. Open(v) = Open(w) \cup {w.accept} /\ w.accept \notin Open(w)
  BY <1>1, <1>4 DEF Open
<1>6. v.finish <= v.accept /\ v.accept <= v.finish + Window /\ v.accept < Ids
  BY <1>1, <1>4, WidthAssumption
<1>7. running \cup {w.accept} \subseteq Open(v)
  BY <1>5 DEF WindowInv
<1>8. \A id \in Open(v) : id \in running \cup {w.accept} <=> id % Window \notin v.status
  BY <1>2, <1>4, <1>5 DEF WindowInv
<1>9. \A x \in v.status : \E id \in Open(v) : x = id % Window
  BY <1>4, <1>5 DEF WindowInv
<1>10. v.finish < v.accept => v.finish % Window \notin v.status
  <2>1. CASE w.finish < w.accept
    BY <1>4, <2>1 DEF WindowInv
  <2>2. CASE w.finish = w.accept
    BY <1>2, <1>4, <2>2
  <2>3. QED BY <1>1, <2>1, <2>2
<1>11. WindowInv(v, running \cup {w.accept})
  BY <1>4, <1>6, <1>7, <1>8, <1>9, <1>10 DEF WindowInv
<1>12. DoneIn(v) = DoneIn(w)
  <2>1. w.accept \notin DoneIn(v)
    BY <1>1, <1>2, <1>4 DEF DoneIn
  <2>2. 0 .. v.accept - 1 = (0 .. w.accept - 1) \cup {w.accept}
    BY <1>1, <1>4
  <2>3. QED BY <1>4, <2>1, <2>2 DEF DoneIn
<1>13. QED BY <1>2, <1>3, <1>11, <1>12 DEF v

\* A task ends, and the tasks up to the first that has not ended are released.
FinishesTo(w, running, id, k, v) ==
    /\ InWindow(w, id)
    /\ v \in [accept : Nat, finish : Nat, status : SUBSET (0 .. Window - 1)]
    /\ v.accept = w.accept /\ v.finish = w.finish + k /\ w.finish + k <= w.accept
    /\ WindowInv(v, running \ {id})
    /\ DoneIn(v) = DoneIn(w) \cup {id}

LEMMA FinishWindow ==
  ASSUME NEW w, NEW running, WindowInv(w, running), NEW id \in running,
         NEW k \in 0 .. Window, NEW S, S = w.status \cup {id % Window},
         StopsAfter(w, S, k)
  PROVE  FinishesTo(w, running, id, k, Released(w, S, k))
<1> DEFINE v == Released(w, S, k)
           gone == {(w.finish + j) % Window : j \in 0 .. k - 1}
<1>1. w \in [accept : Nat, finish : Nat, status : SUBSET (0 .. Window - 1)]
      /\ w.finish <= w.accept /\ w.accept <= w.finish + Window /\ w.accept < Ids
  BY DEF WindowInv
<1>2. id \in Open(w) /\ id \in Nat /\ w.finish <= id /\ id < w.accept
  BY <1>1 DEF WindowInv, Open
<1>3. \A a, b \in Open(w) : a \in Nat /\ b \in Nat /\ (a % Window = b % Window => a = b)
  BY <1>1, OwnBit, WidthAssumption DEF Open
<1>4. w.finish + k <= w.accept
  <2>1. SUFFICES ASSUME w.accept < w.finish + k PROVE FALSE
    BY <1>1, WidthAssumption
  <2>2. w.accept - w.finish \in 0 .. k - 1 /\ w.finish + (w.accept - w.finish) = w.accept
    BY <1>1, <2>1, WidthAssumption
  <2>3. w.accept % Window \in S
    BY <2>2 DEF StopsAfter
  <2>4. PICK i \in Open(w) : w.accept % Window = i % Window
    BY <1>2, <2>3 DEF WindowInv
  <2>5. i \in Nat /\ i < w.accept /\ w.accept - i < Window
    BY <1>1, <2>1, WidthAssumption DEF Open
  <2>6. QED BY <1>1, <2>4, <2>5, OwnBit, WidthAssumption
<1>5. w.finish + k \in Nat /\ (w.finish + k) % Ids = w.finish + k
  BY <1>1, <1>4, IdStays, WidthAssumption
<1>6. S \subseteq 0 .. Window - 1
  <2>1. id % Window \in 0 .. Window - 1
    BY <1>2, WidthAssumption, DivMod
  <2>2. QED BY <1>1, <2>1
<1>7. v \in [accept : Nat, finish : Nat, status : SUBSET (0 .. Window - 1)]
      /\ v.accept = w.accept /\ v.finish = w.finish + k /\ v.status = S \ gone
  BY <1>1, <1>5, <1>6 DEF Released
<1>8. \A i \in Open(w) : i % Window \in S <=> i \notin running \ {id}
  BY <1>2, <1>3 DEF WindowInv
<1>9. \A i \in Open(w) : i < w.finish + k <=> i % Window \in gone
  <2>1. TAKE i \in Open(w)
  <2>2. ASSUME i < w.finish + k PROVE i % Window \in gone
    <3>1. i - w.finish \in 0 .. k - 1 /\ w.finish + (i - w.finish) = i
      BY <1>1, <2>2, WidthAssumption DEF Open
    <3>2. QED BY <3>1
  <2>3. ASSUME i % Window \in gone PROVE i < w.finish + k
    <3>1. PICK j \in 0 .. k - 1 : i % Window = (w.finish + j) % Window
      BY <2>3
    <3>2. w.finish + j \in Open(w)
      BY <1>1, <1>4, WidthAssumption DEF Open
    <3>3. i = w.finish + j
      BY <1>3, <3>1, <3>2
    <3>4. QED BY <1>1, <3>3, WidthAssumption
  <2>4. QED BY <2>2, <2>3
<1>10. gone \subseteq S
  BY DEF StopsAfter
<1> HIDE DEF v, gone
<1>11. Open(v) = {i \in Open(w) : ~(i < w.finish + k)}
  BY <1>1, <1>5, <1>7, WidthAssumption DEF Open
<1>12. running \ {id} \subseteq Open(v)
  BY <1>8, <1>9, <1>10, <1>11 DEF WindowInv
<1>13. \A i \in Open(v) : i \in running \ {id} <=> i % Window \notin v.status
  BY <1>7, <1>8, <1>9, <1>11
<1>14. \A x \in v.status : \E i \in Open(v) : x = i % Window
  <2>1. TAKE x \in v.status
  <2>2. x \in S /\ x \notin gone
    BY <1>7
  <2>3. PICK i \in Open(w) : x = i % Window
    BY <1>2, <2>2 DEF WindowInv
  <2>4. QED BY <1>9, <1>11, <2>2, <2>3
<1>15. v.finish < v.accept => v.finish % Window \notin v.status
  <2>1. SUFFICES ASSUME w.finish + k < w.accept PROVE (w.finish + k) % Window \notin S
    BY <1>7
  <2>2. k # Window
    BY <1>1, <2>1, WidthAssumption
  <2>3. QED BY <2>2 DEF StopsAfter
<1>16. WindowInv(v, running \ {id})
  <2>1. v.finish <= v.accept /\ v.accept <= v.finish + Window /\ v.accept < Ids
    BY <1>1, <1>4, <1>7, WidthAssumption
  <2>2. QED BY <1>7, <1>12, <1>13, <1>14, <1>15, <2>1 DEF WindowInv
<1>17. DoneIn(v) = DoneIn(w) \cup {id}
  <2>1. \A i \in 0 .. w.accept - 1 : i \in DoneIn(v) <=> i \in DoneIn(w) \cup {id}
    <3>1. TAKE i \in 0 .. w.accept - 1
    <3>2. CASE i < w.finish
      BY <1>1, <1>5, <1>7, <3>2, WidthAssumption DEF DoneIn
    <3>3. CASE i \in Open(w)
      <4>1. i \in DoneIn(w) <=> i % Window \in w.status
        BY <1>1, <3>3 DEF DoneIn, Open
      <4>2. i \in DoneIn(v) <=> i % Window \in S
        BY <1>7, <1>9, <1>10, <3>3 DEF DoneIn
      <4>3. i % Window \in S <=> i % Window \in w.status \/ i = id
        BY <1>2, <1>3, <3>3
      <4>4. QED BY <4>1, <4>2, <4>3
    <3>4. QED BY <1>1, <3>2, <3>3 DEF Open
  <2>2. DoneIn(v) \subseteq 0 .. w.accept - 1 /\ DoneIn(w) \cup {id} \subseteq 0 .. w.accept - 1
    BY <1>1, <1>2, <1>7 DEF DoneIn
  <2>3. QED BY <2>1, <2>2
<1>18. InWindow(w, id)
  BY <1>2 DEF InWindow
<1>19. QED BY <1>4, <1>7, <1>16, <1>17, <1>18 DEF v, FinishesTo

\* The task is done, and the tasks that are released are the first ones done.
Ends(accept, finish, done, id, acceptNow, finishNow, doneNow) ==
    /\ id \in (finish .. accept - 1) \ done
    /\ doneNow = done \cup {id}
    /\ finishNow \in finish .. accept
    /\ 0 .. finishNow - 1 \subseteq doneNow
    /\ finishNow \notin doneNow
    /\ acceptNow = accept

LEMMA FinishImplements ==
  ASSUME NEW w, NEW running, WindowInv(w, running), NEW id \in running, NEW k \in Nat,
         NEW v, FinishesTo(w, running, id, k, v)
  PROVE  Ends(w.accept, w.finish, DoneIn(w), id, v.accept, v.finish, DoneIn(v))
<1>1. w \in [accept : Nat, finish : Nat, status : SUBSET (0 .. Window - 1)]
      /\ w.finish <= w.accept
  BY DEF WindowInv
<1>2. /\ v \in [accept : Nat, finish : Nat, status : SUBSET (0 .. Window - 1)]
      /\ v.accept = w.accept /\ v.finish = w.finish + k /\ w.finish + k <= w.accept
      /\ DoneIn(v) = DoneIn(w) \cup {id}
  BY DEF FinishesTo
<1>3. id \in w.finish .. w.accept - 1 /\ id % Window \notin w.status
  BY DEF WindowInv, Open
<1>4. id \notin DoneIn(w)
  BY <1>1, <1>3 DEF DoneIn
<1>5. v.finish \in w.finish .. w.accept /\ 0 .. v.finish - 1 \subseteq DoneIn(v)
  BY <1>1, <1>2 DEF DoneIn
<1>6. v.finish < v.accept => v.finish % Window \notin v.status
  BY DEF FinishesTo, WindowInv
<1>7. v.finish \notin DoneIn(v)
  BY <1>2, <1>6 DEF DoneIn
<1>8. QED BY <1>2, <1>3, <1>4, <1>5, <1>7 DEF Ends

(***************************************************************************)
(* Reads.  The buffers from the next page for the host to the last task    *)
(* accepted are all different; those whose tasks have ended hold their     *)
(* data, and BM_STACK_RDSET never passes a task that runs.                 *)
(***************************************************************************)
ReadInv ==
    /\ WindowInv(rd, reading)
    /\ sent \in Nat /\ sent <= rd.finish
    /\ rd.accept <= sent + ReadBuffers - 1 /\ rd.accept <= MaxTasks + ReadBuffers
    /\ rdPtr = sent % ReadBuffers /\ rdSet = rd.finish % ReadBuffers
    /\ rdBuf = [b \in 0 .. ReadBuffers - 1 |-> rdBuf[b]]
    /\ \A id \in sent .. rd.accept - 1 : id \notin reading => rdBuf[id % ReadBuffers] = id

(***************************************************************************)
(* Writes.  The buffers from the first task not released to the last page  *)
(* received are all different and hold their pages.                        *)
(***************************************************************************)
WriteInv ==
    /\ WindowInv(wr, writing)
    /\ received \in 0 .. MaxTasks
    /\ wr.accept <= received /\ received <= wr.finish + WriteBuffers - 1
    /\ wrPtr = received % WriteBuffers /\ wrSet = wr.finish % WriteBuffers
    /\ wrBuf = [b \in 0 .. WriteBuffers - 1 |-> wrBuf[b]]
    /\ \A id \in wr.finish .. received - 1 : wrBuf[id % WriteBuffers] = id

IInv == ReadInv /\ WriteInv /\ halted = FALSE

NoWrap == MaxTasks + ReadBuffers < Ids

LEMMA OwnReadBuffer ==
  /\ \A a \in Nat : a % ReadBuffers \in 0 .. ReadBuffers - 1
  /\ \A a, b \in Nat : a - b < ReadBuffers /\ b - a < ReadBuffers
                       /\ a % ReadBuffers = b % ReadBuffers => a = b
  /\ \A a \in Nat : (a + ReadBuffers) % ReadBuffers = a % ReadBuffers
  /\ \A a \in Nat : ((a % ReadBuffers) + 1) % ReadBuffers = (a + 1) % ReadBuffers
<1>1. ReadBuffers \in Nat \ {0}
  BY WidthAssumption
<1>2. \A a \in Nat : a % ReadBuffers \in 0 .. ReadBuffers - 1
  BY <1>1, DivMod
<1>3. \A a, b \in Nat : a - b < ReadBuffers /\ b - a < ReadBuffers
                       /\ a % ReadBuffers = b % ReadBuffers => a = b
  BY <1>1, ModSame
<1>4. \A a \in Nat : (a + ReadBuffers) % ReadBuffers = a % ReadBuffers
  BY <1>1, ModWrap
<1>5. \A a \in Nat : ((a % ReadBuffers) + 1) % ReadBuffers = (a + 1) % ReadBuffers
  BY <1>1, ModNext
<1>6. QED BY <1>2, <1>3, <1>4, <1>5

LEMMA OwnWriteBuffer ==
  /\ \A a \in Nat : a % WriteBuffers \in 0 .. WriteBuffers - 1
  /\ \A a, b \in Nat : a - b < WriteBuffers /\ b - a < WriteBuffers
                       /\ a % WriteBuffers = b % WriteBuffers => a = b
  /\ \A a \in Nat : (a + WriteBuffers) % WriteBuffers = a % WriteBuffers
  /\ \A a \in Nat : ((a % WriteBuffers) + 1) % WriteBuffers = (a + 1) % WriteBuffers
<1>1. WriteBuffers \in Nat \ {0}
  BY WidthAssumption
<1>2. \A a \in Nat : a % WriteBuffers \in 0 .. WriteBuffers - 1
  BY <1>1, DivMod
<1>3. \A a, b \in Nat : a - b < WriteBuffers /\ b - a < WriteBuffers
                       /\ a % WriteBuffers = b % WriteBuffers => a = b
  BY <1>1, ModSame
<1>4. \A a \in Nat : (a + WriteBuffers) % WriteBuffers = a % WriteBuffers
  BY <1>1, ModWrap
<1>5. \A a \in Nat : ((a % WriteBuffers) + 1) % WriteBuffers = (a + 1) % WriteBuffers
  BY <1>1, ModNext
<1>6. QED BY <1>2, <1>3, <1>4, <1>5

LEMMA InitInv == ASSUME NoWrap PROVE Init => IInv
<1>1. SUFFICES ASSUME Init PROVE IInv
  OBVIOUS
<1>2. WindowInv(EmptyWindow, {})
  BY WidthAssumption DEF WindowInv, EmptyWindow, Open
<1>3. 0 % ReadBuffers = 0 /\ 0 % WriteBuffers = 0
  BY WidthAssumption, ModSmall
<1>4. ReadInv
  BY <1>1, <1>2, <1>3, WidthAssumption DEF ReadInv, Init, EmptyWindow
<1>5. WriteInv
  BY <1>1, <1>2, <1>3, WidthAssumption DEF WriteInv, Init, EmptyWindow
<1>6. QED BY <1>1, <1>4, <1>5 DEF IInv, Init

LEMMA AcceptReadStep ==
  ASSUME NoWrap, IInv, AcceptRead
  PROVE  IInv' /\ Reads!AcceptTask /\ UNCHANGED wr
<1>1. rd \in [accept : Nat, finish : Nat, status : SUBSET (0 .. Window - 1)]
      /\ rd.finish <= rd.accept /\ sent \in Nat /\ sent <= rd.finish
      /\ rd.accept <= sent + ReadBuffers - 1 /\ reading \subseteq Open(rd)
  BY DEF IInv, ReadInv, WindowInv
<1>2. Pending(rd) = rd.accept - rd.finish
  BY PendingIs DEF IInv, ReadInv
<1>3. rd.accept + 1 <= MaxTasks + ReadBuffers /\ rd.accept + 1 < Ids
  BY <1>1, <1>2, WidthAssumption DEF AcceptRead, NoWrap
<1>4. /\ rd.accept % Window \notin rd.status
      /\ Accepted(rd) = [rd EXCEPT !.accept = @ + 1]
      /\ WindowInv(Accepted(rd), reading \cup {rd.accept})
      /\ DoneIn(Accepted(rd)) = DoneIn(rd)
  BY <1>3, AcceptWindow DEF IInv, ReadInv, AcceptRead, CanAcceptRead
<1>5. /\ rd' = Accepted(rd) /\ reading' = reading \cup {rd.accept}
      /\ rdBuf' = [rdBuf EXCEPT ![rd.accept % ReadBuffers] = NoData]
      /\ UNCHANGED <<rdSet, rdPtr, sent, writeVars, halted>>
  BY <1>4 DEF AcceptRead
<1>6. rd'.accept = rd.accept + 1 /\ rd'.finish = rd.finish
  BY <1>1, <1>4, <1>5
<1>7. (rd.accept + 1) % ReadBuffers # sent % ReadBuffers
  BY <1>1, <1>3, IdStays DEF AcceptRead, CanAcceptRead, IInv, ReadInv
<1>8. rd.accept + 1 <= sent + ReadBuffers - 1
  <2>1. rd.accept + 1 # sent + ReadBuffers
    BY <1>1, <1>7, OwnReadBuffer
  <2>2. QED BY <1>1, <2>1, WidthAssumption
<1>9. \A id \in sent .. rd.accept : id \notin reading' => rdBuf'[id % ReadBuffers] = id
  <2>1. TAKE id \in sent .. rd.accept
  <2>2. HAVE id \notin reading'
  <2>3. id \in Nat /\ id \in sent .. rd.accept - 1 /\ id \notin reading
    BY <1>1, <1>5, <2>2
  <2>4. id % ReadBuffers # rd.accept % ReadBuffers
    BY <1>1, <2>3, OwnReadBuffer, WidthAssumption
  <2>5. id % ReadBuffers \in 0 .. ReadBuffers - 1 /\ rdBuf[id % ReadBuffers] = id
    BY <2>3, OwnReadBuffer DEF IInv, ReadInv
  <2>6. QED BY <1>5, <2>4, <2>5 DEF IInv, ReadInv
<1>10. ReadInv'
  <2>1. rdBuf' = [b \in 0 .. ReadBuffers - 1 |-> rdBuf'[b]]
    BY <1>5 DEF IInv, ReadInv
  <2>2. WindowInv(rd', reading')
    BY <1>4, <1>5
  <2>3. rdPtr' = sent' % ReadBuffers /\ rdSet' = rd'.finish % ReadBuffers
    BY <1>5, <1>6 DEF IInv, ReadInv
  <2>4. QED BY <1>1, <1>3, <1>5, <1>6, <1>8, <1>9, <2>1, <2>2, <2>3 DEF ReadInv
<1>11. WriteInv'
  BY <1>5 DEF IInv, WriteInv, writeVars
<1>12. rd.accept - rd.finish < Window
  BY <1>2 DEF AcceptRead, CanAcceptRead, HasRoom
<1>13. Reads!AcceptTask
  BY <1>4, <1>5, <1>6, <1>12 DEF Reads!AcceptTask
<1>14. QED BY <1>5, <1>10, <1>11, <1>13 DEF IInv, writeVars

LEMMA FinishReadStep ==
  ASSUME NoWrap, IInv, NEW id \in reading, FinishRead(id)
  PROVE  IInv' /\ (\E i \in rd.finish .. rd.accept : Reads!FinishTask(i)) /\ UNCHANGED wr
<1>1. rd \in [accept : Nat, finish : Nat, status : SUBSET (0 .. Window - 1)]
      /\ rd.finish <= rd.accept /\ sent \in Nat /\ sent <= rd.finish
      /\ rd.accept <= sent + ReadBuffers - 1 /\ reading \subseteq Open(rd)
  BY DEF IInv, ReadInv, WindowInv
<1>2. id \in Nat /\ rd.finish <= id /\ id < rd.accept
  BY <1>1 DEF Open
<1> DEFINE S == rd.status \cup {id % Window}
<1>3. InWindow(rd, id)
  BY <1>2 DEF InWindow
<1>4. PICK k \in 0 .. Window :
        /\ StopsAfter(rd, S, k)
        /\ rd' = Released(rd, S, k)
        /\ reading' = reading \ {id}
        /\ rdBuf' = [rdBuf EXCEPT ![id % ReadBuffers] = id]
        /\ rdSet' = IF k = 0 THEN rdSet ELSE rd'.finish % ReadBuffers
        /\ UNCHANGED <<rdPtr, sent, writeVars, halted>>
  BY <1>3 DEF FinishRead
<1>5. /\ rd' \in [accept : Nat, finish : Nat, status : SUBSET (0 .. Window - 1)]
      /\ rd'.accept = rd.accept /\ rd'.finish = rd.finish + k /\ rd.finish + k <= rd.accept
      /\ WindowInv(rd', reading')
      /\ FinishesTo(rd, reading, id, k, rd')
  <2>1. S = rd.status \cup {id % Window}
    OBVIOUS
  <2> HIDE DEF S
  <2>2. WindowInv(rd, reading) /\ k \in 0 .. Window /\ StopsAfter(rd, S, k)
    BY <1>4 DEF IInv, ReadInv
  <2>3. FinishesTo(rd, reading, id, k, Released(rd, S, k))
    BY <2>1, <2>2, FinishWindow, Zenon
  <2>4. FinishesTo(rd, reading, id, k, rd')
    BY <1>4, <2>3 DEF S
  <2>5. QED BY <1>4, <2>4 DEF FinishesTo
<1>6. rdSet' = rd'.finish % ReadBuffers
  <2>1. CASE k = 0
    <3>1. rd'.finish = rd.finish
      BY <1>1, <1>5, <2>1
    <3>2. QED BY <1>4, <2>1, <3>1 DEF IInv, ReadInv
  <2>2. QED BY <1>4, <2>1
<1>7. \A i \in sent .. rd.accept - 1 : i \notin reading' => rdBuf'[i % ReadBuffers] = i
  <2>1. TAKE i \in sent .. rd.accept - 1
  <2>2. HAVE i \notin reading'
  <2>3. i \in Nat /\ i % ReadBuffers \in 0 .. ReadBuffers - 1
    BY <1>1, OwnReadBuffer
  <2>4. CASE i = id
    BY <1>4, <2>3, <2>4 DEF IInv, ReadInv
  <2>5. CASE i # id
    <3>1. i % ReadBuffers # id % ReadBuffers
      BY <1>1, <1>2, <2>3, <2>5, OwnReadBuffer, WidthAssumption
    <3>2. rdBuf[i % ReadBuffers] = i
      BY <1>4, <2>2, <2>5 DEF IInv, ReadInv
    <3>3. QED BY <1>4, <2>3, <3>1, <3>2 DEF IInv, ReadInv
  <2>6. QED BY <2>4, <2>5
<1>8. ReadInv'
  <2>1. rdBuf' = [b \in 0 .. ReadBuffers - 1 |-> rdBuf'[b]]
    BY <1>4 DEF IInv, ReadInv
  <2>2. sent' <= rd'.finish
    BY <1>1, <1>4, <1>5, WidthAssumption
  <2>3. rd'.accept <= MaxTasks + ReadBuffers /\ rdPtr' = sent' % ReadBuffers
    BY <1>4, <1>5 DEF IInv, ReadInv
  <2>4. QED BY <1>1, <1>4, <1>5, <1>6, <1>7, <2>1, <2>2, <2>3 DEF ReadInv
<1>9. WriteInv'
  BY <1>4 DEF IInv, WriteInv, writeVars
<1>10. Ends(rd.accept, rd.finish, DoneIn(rd), id, rd'.accept, rd'.finish, DoneIn(rd'))
  <2>1. WindowInv(rd, reading) /\ k \in Nat
    BY DEF IInv, ReadInv
  <2>2. QED BY <1>5, <2>1, FinishImplements, Zenon
<1>11. id \in rd.finish .. rd.accept /\ Reads!FinishTask(id)
  BY <1>1, <1>2, <1>10 DEF Ends, Reads!FinishTask
<1>12. QED BY <1>4, <1>8, <1>9, <1>11 DEF IInv, writeVars

LEMMA SendPageStep ==
  ASSUME IInv, SendPage
  PROVE  IInv'
<1>1. rd \in [accept : Nat, finish : Nat, status : SUBSET (0 .. Window - 1)]
      /\ rd.finish <= rd.accept /\ sent \in Nat /\ sent <= rd.finish
      /\ rd.accept <= sent + ReadBuffers - 1
  BY DEF IInv, ReadInv, WindowInv
<1>2. sent # rd.finish
  BY DEF SendPage, IInv, ReadInv
<1>3. sent' = sent + 1 /\ sent + 1 <= rd.finish
  BY <1>1, <1>2 DEF SendPage
<1>4. rdPtr' = sent' % ReadBuffers
  BY <1>1, <1>3, OwnReadBuffer DEF SendPage, IInv, ReadInv
<1>5. UNCHANGED <<rd, reading, rdBuf, rdSet>>
  BY DEF SendPage
<1>6. \A id \in sent' .. rd.accept - 1 : id \notin reading => rdBuf[id % ReadBuffers] = id
  <2>1. sent' .. rd.accept - 1 \subseteq sent .. rd.accept - 1
    BY <1>1, <1>3
  <2>2. QED BY <2>1 DEF IInv, ReadInv
<1>7. rd.accept <= sent' + ReadBuffers - 1
  BY <1>1, <1>3, WidthAssumption
<1>8. ReadInv'
  <2>1. WindowInv(rd', reading')
    BY <1>5 DEF IInv, ReadInv
  <2>2. sent' \in Nat /\ sent' <= rd'.finish
    BY <1>1, <1>3, <1>5
  <2>3. rd'.accept <= MaxTasks + ReadBuffers /\ rdSet' = rd'.finish % ReadBuffers
    BY <1>5 DEF IInv, ReadInv
  <2>4. rdBuf' = [b \in 0 .. ReadBuffers - 1 |-> rdBuf'[b]]
    BY <1>5 DEF IInv, ReadInv
  <2>5. QED BY <1>4, <1>5, <1>6, <1>7, <2>1, <2>2, <2>3, <2>4 DEF ReadInv
<1>9. QED BY <1>8 DEF IInv, WriteInv, SendPage, writeVars

LEMMA ReceivePageStep ==
  ASSUME NoWrap, IInv, ReceivePage
  PROVE  IInv' /\ UNCHANGED <<rd, wr>>
<1>1. wr \in [accept : Nat, finish : Nat, status : SUBSET (0 .. Window - 1)]
      /\ wr.finish <= wr.accept /\ received \in Nat /\ wr.accept <= received
      /\ received <= wr.finish + WriteBuffers - 1 /\ received < MaxTasks
  BY WidthAssumption DEF IInv, WriteInv, WindowInv, ReceivePage
<1>2. /\ wrBuf' = [wrBuf EXCEPT ![received % WriteBuffers] = received]
      /\ wrPtr' = (received + 1) % WriteBuffers /\ received' = received + 1
      /\ UNCHANGED <<wr, writing, wrSet, readVars, halted>>
  <2>1. received % Ids = received
    BY <1>1, IdStays, WidthAssumption DEF NoWrap
  <2>2. ((received % WriteBuffers) + 1) % WriteBuffers = (received + 1) % WriteBuffers
    BY <1>1, OwnWriteBuffer
  <2>3. QED BY <2>1, <2>2 DEF ReceivePage, IInv, WriteInv
<1>3. received + 1 <= wr.finish + WriteBuffers - 1
  <2>1. (received + 1) % WriteBuffers # wr.finish % WriteBuffers
    BY <1>2 DEF ReceivePage, IInv, WriteInv
  <2>2. received + 1 # wr.finish + WriteBuffers
    BY <1>1, <2>1, OwnWriteBuffer
  <2>3. QED BY <1>1, <2>2, WidthAssumption
<1>4. \A id \in wr.finish .. received : wrBuf'[id % WriteBuffers] = id
  <2>1. TAKE id \in wr.finish .. received
  <2>2. id \in Nat /\ id % WriteBuffers \in 0 .. WriteBuffers - 1
    BY <1>1, OwnWriteBuffer
  <2>3. CASE id = received
    BY <1>2, <2>2, <2>3 DEF IInv, WriteInv
  <2>4. CASE id # received
    <3>1. id \in wr.finish .. received - 1
      BY <1>1, <2>2, <2>4
    <3>2. id % WriteBuffers # received % WriteBuffers
      <4>1. received - id < WriteBuffers /\ id - received < WriteBuffers
        BY <1>1, <3>1, WidthAssumption
      <4>2. QED BY <1>1, <2>2, <2>4, <4>1, OwnWriteBuffer
    <3>3. wrBuf[id % WriteBuffers] = id
      BY <3>1 DEF IInv, WriteInv
    <3>4. QED BY <1>2, <2>2, <3>2, <3>3 DEF IInv, WriteInv
  <2>5. QED BY <2>3, <2>4
<1>5. WriteInv'
  <2>1. WindowInv(wr', writing') /\ wrSet' = wr'.finish % WriteBuffers
    BY <1>2 DEF IInv, WriteInv
  <2>2. wrBuf' = [b \in 0 .. WriteBuffers - 1 |-> wrBuf'[b]]
    BY <1>2 DEF IInv, WriteInv
  <2>3. received' \in 0 .. MaxTasks /\ wr'.accept <= received'
    BY <1>1, <1>2, WidthAssumption
  <2>4. QED BY <1>1, <1>2, <1>3, <1>4, <2>1, <2>2, <2>3 DEF WriteInv
<1>6. ReadInv'
  BY <1>2 DEF IInv, ReadInv, readVars
<1>7. QED BY <1>2, <1>5, <1>6 DEF IInv, readVars

LEMMA AcceptWriteStep ==
  ASSUME NoWrap, IInv, AcceptWrite
  PROVE  IInv' /\ Writes!AcceptTask /\ UNCHANGED rd
<1>1. wr \in [accept : Nat, finish : Nat, status : SUBSET (0 .. Window - 1)]
      /\ wr.finish <= wr.accept /\ received \in 0 .. MaxTasks /\ wr.accept <= received
  BY DEF IInv, WriteInv, WindowInv
<1>2. Pending(wr) = wr.accept - wr.finish
  BY PendingIs DEF IInv, WriteInv
<1>3. wr.accept + 1 <= received /\ wr.accept + 1 < Ids
  <2>1. wr.accept # received
    BY DEF AcceptWrite, CanAcceptWrite, IInv, WriteInv
  <2>2. QED BY <1>1, <2>1, WidthAssumption DEF NoWrap
<1>4. /\ wr.accept % Window \notin wr.status
      /\ Accepted(wr) = [wr EXCEPT !.accept = @ + 1]
      /\ WindowInv(Accepted(wr), writing \cup {wr.accept})
      /\ DoneIn(Accepted(wr)) = DoneIn(wr)
  BY <1>3, AcceptWindow DEF IInv, WriteInv, AcceptWrite, CanAcceptWrite
<1>5. /\ wr' = Accepted(wr) /\ writing' = writing \cup {wr.accept}
      /\ UNCHANGED <<wrBuf, wrSet, wrPtr, received, readVars, halted>>
  BY <1>4 DEF AcceptWrite
<1>6. wr'.accept = wr.accept + 1 /\ wr'.finish = wr.finish
  BY <1>1, <1>4, <1>5
<1>7. WriteInv'
  <2>1. WindowInv(wr', writing')
    BY <1>4, <1>5
  <2>2. QED BY <1>3, <1>5, <1>6, <2>1 DEF IInv, WriteInv
<1>8. ReadInv'
  BY <1>5 DEF IInv, ReadInv, readVars
<1>9. wr.accept - wr.finish < Window
  BY <1>2 DEF AcceptWrite, CanAcceptWrite, HasRoom
<1>10. Writes!AcceptTask
  BY <1>4, <1>5, <1>6, <1>9 DEF Writes!AcceptTask
<1>11. QED BY <1>5, <1>7, <1>8, <1>10 DEF IInv, readVars

LEMMA FinishWriteStep ==
  ASSUME NoWrap, IInv, NEW id \in writing, FinishWrite(id)
  PROVE  IInv' /\ (\E i \in wr.finish .. wr.accept : Writes!FinishTask(i)) /\ UNCHANGED rd
<1>1. wr \in [accept : Nat, finish : Nat, status : SUBSET (0 .. Window - 1)]
      /\ wr.finish <= wr.accept /\ received \in 0 .. MaxTasks /\ wr.accept <= received
      /\ received <= wr.finish + WriteBuffers - 1 /\ writing \subseteq Open(wr)
  BY DEF IInv, WriteInv, WindowInv
<1>2. id \in Nat /\ wr.finish <= id /\ id < wr.accept
  BY <1>1 DEF Open
<1> DEFINE S == wr.status \cup {id % Window}
<1>3. InWindow(wr, id)
  BY <1>2 DEF InWindow
<1>4. PICK k \in 0 .. Window :
        /\ StopsAfter(wr, S, k)
        /\ wr' = Released(wr, S, k)
        /\ writing' = writing \ {id}
        /\ wrSet' = IF k = 0 THEN wrSet ELSE wr'.finish % WriteBuffers
        /\ UNCHANGED <<wrBuf, wrPtr, received, readVars, halted>>
  BY <1>3 DEF FinishWrite
<1>5. /\ wr' \in [accept : Nat, finish : Nat, status : SUBSET (0 .. Window - 1)]
      /\ wr'.accept = wr.accept /\ wr'.finish = wr.finish + k /\ wr.finish + k <= wr.accept
      /\ WindowInv(wr', writing')
      /\ FinishesTo(wr, writing, id, k, wr')
  <2>1. S = wr.status \cup {id % Window}
    OBVIOUS
  <2> HIDE DEF S
  <2>2. WindowInv(wr, writing) /\ k \in 0 .. Window /\ StopsAfter(wr, S, k)
    BY <1>4 DEF IInv, WriteInv
  <2>3. FinishesTo(wr, writing, id, k, Released(wr, S, k))
    BY <2>1, <2>2, FinishWindow, Zenon
  <2>4. FinishesTo(wr, writing, id, k, wr')
    BY <1>4, <2>3 DEF S
  <2>5. QED BY <1>4, <2>4 DEF FinishesTo
<1>6. wrSet' = wr'.finish % WriteBuffers
  <2>1. CASE k = 0
    <3>1. wr'.finish = wr.finish
      BY <1>1, <1>5, <2>1
    <3>2. QED BY <1>4, <2>1, <3>1 DEF IInv, WriteInv
  <2>2. QED BY <1>4, <2>1
<1>7. \A i \in wr'.finish .. received - 1 : wrBuf[i % WriteBuffers] = i
  <2>1. wr'.finish .. received - 1 \subseteq wr.finish .. received - 1
    BY <1>1, <1>5
  <2>2. QED BY <2>1 DEF IInv, WriteInv
<1>8. WriteInv'
  <2>1. received <= wr'.finish + WriteBuffers - 1
    BY <1>1, <1>5, WidthAssumption
  <2>2. wrBuf' = [b \in 0 .. WriteBuffers - 1 |-> wrBuf'[b]]
        /\ wrPtr' = received' % WriteBuffers
    BY <1>4 DEF IInv, WriteInv
  <2>3. QED BY <1>1, <1>4, <1>5, <1>6, <1>7, <2>1, <2>2 DEF WriteInv
<1>9. ReadInv'
  BY <1>4 DEF IInv, ReadInv, readVars
<1>10. Ends(wr.accept, wr.finish, DoneIn(wr), id, wr'.accept, wr'.finish, DoneIn(wr'))
  <2>1. WindowInv(wr, writing) /\ k \in Nat
    BY DEF IInv, WriteInv
  <2>2. QED BY <1>5, <2>1, FinishImplements, Zenon
<1>11. id \in wr.finish .. wr.accept /\ Writes!FinishTask(id)
  BY <1>1, <1>2, <1>10 DEF Ends, Writes!FinishTask
<1>12. QED BY <1>4, <1>8, <1>9, <1>11 DEF IInv, readVars

(***************************************************************************)
(* Every step preserves the invariant and is a step of both ordered        *)
(* windows, or leaves them alone.                                          *)
(***************************************************************************)
LEMMA NextInv ==
  ASSUME NoWrap, IInv, [Next]_vars
  PROVE  /\ IInv'
         /\ [Reads!TasksNext]_<<rd.accept, DoneIn(rd), rd.finish>>
         /\ [Writes!TasksNext]_<<wr.accept, DoneIn(wr), wr.finish>>
<1>1. CASE AcceptRead
  BY <1>1, AcceptReadStep DEF Reads!TasksNext
<1>2. CASE \E id \in reading : FinishRead(id)
  BY <1>2, FinishReadStep DEF Reads!TasksNext
<1>3. CASE SendPage
  <2>1. UNCHANGED <<rd, wr>>
    BY <1>3 DEF SendPage, writeVars
  <2>2. QED BY <1>3, <2>1, SendPageStep
<1>4. CASE ReceivePage
  BY <1>4, ReceivePageStep
<1>5. CASE AcceptWrite
  BY <1>5, AcceptWriteStep DEF Writes!TasksNext
<1>6. CASE \E id \in writing : FinishWrite(id)
  BY <1>6, FinishWriteStep DEF Writes!TasksNext
<1>7. CASE UNCHANGED vars
  BY <1>7 DEF vars, readVars, writeVars, IInv, ReadInv, WriteInv
<1>8. QED BY <1>1, <1>2, <1>3, <1>4, <1>5, <1>6, <1>7 DEF Next, Step

LEMMA IInvHolds == ASSUME NoWrap PROVE Spec => []IInv
<1>1. Init => IInv
  BY InitInv
<1>2. IInv /\ [Next]_vars => IInv'
  BY NextInv
<1>3. QED BY <1>1, <1>2, PTL DEF Spec

(***************************************************************************)
(* While the ids do not wrap, the host gets the page of every read in the  *)
(* order of the reads and with its data (sata_manager.c, finish_read).     *)
(***************************************************************************)
THEOREM ReadsInOrder == ASSUME NoWrap PROVE Spec => []ReadsSentInOrder
<1>1. IInv => ReadsSentInOrder
  <2>1. SUFFICES ASSUME IInv, rdPtr # rdSet PROVE rdBuf[rdPtr] = sent
    BY DEF ReadsSentInOrder
  <2>2. rd.finish \in Nat /\ rd.accept \in Nat /\ rd.finish <= rd.accept /\ sent \in Nat
        /\ sent <= rd.finish /\ reading \subseteq Open(rd)
    BY <2>1 DEF IInv, ReadInv, WindowInv
  <2>3. sent < rd.finish
    BY <2>1, <2>2 DEF IInv, ReadInv
  <2>4. sent \in sent .. rd.accept - 1 /\ sent \notin reading
    BY <2>2, <2>3 DEF Open
  <2>5. QED BY <2>1, <2>4 DEF IInv, ReadInv
<1>2. QED BY <1>1, IInvHolds, PTL

(***************************************************************************)
(* While the ids do not wrap, the buffer of a write keeps its page for as  *)
(* long as its thread runs (sata_manager.c, accept_write, finish_write).   *)
(***************************************************************************)
THEOREM WritesIntact == ASSUME NoWrap PROVE Spec => []WriteDataIntact
<1>1. IInv => WriteDataIntact
  <2>1. SUFFICES ASSUME IInv, NEW id \in writing PROVE wrBuf[id % WriteBuffers] = id
    BY DEF WriteDataIntact
  <2>2. wr.finish \in Nat /\ wr.accept \in Nat /\ received \in Nat /\ wr.accept <= received
        /\ id \in wr.finish .. wr.accept - 1
    BY <2>1 DEF IInv, WriteInv, WindowInv, Open
  <2>3. id \in wr.finish .. received - 1
    BY <2>2
  <2>4. QED BY <2>1, <2>3 DEF IInv, WriteInv
<1>2. QED BY <1>1, IInvHolds, PTL

(***************************************************************************)
(* While the ids do not wrap, the assertions of the four functions of      *)
(* sata_manager.c hold.                                                    *)
(***************************************************************************)
THEOREM AssertionsHold == ASSUME NoWrap PROVE Spec => []~halted
<1>1. IInv => ~halted
  BY DEF IInv
<1>2. QED BY <1>1, IInvHolds, PTL

(***************************************************************************)
(* The tasks of a window, counted: those that run, and those that have     *)
(* ended behind one that runs, each by its own bit.                        *)
(***************************************************************************)
LEMMA TasksCounted ==
  ASSUME NEW w, NEW running, WindowInv(w, running)
  PROVE  Pending(w) = Cardinality(running) + Cardinality(w.status)
<1> DEFINE ended == Open(w) \ running
<1>1. /\ w.finish \in Nat /\ w.accept \in Nat /\ w.finish <= w.accept
      /\ w.accept <= w.finish + Window /\ running \subseteq Open(w)
      /\ w.status \subseteq 0 .. Window - 1 /\ Window \in Nat \ {0}
  BY WidthAssumption DEF WindowInv
<1>2. IsFiniteSet(Open(w)) /\ Cardinality(Open(w)) = w.accept - w.finish
  <2>1. w.finish \in Int /\ w.accept - 1 \in Int
    BY <1>1
  <2>2. /\ IsFiniteSet(w.finish .. w.accept - 1)
        /\ Cardinality(w.finish .. w.accept - 1)
              = IF w.finish > w.accept - 1 THEN 0 ELSE w.accept - 1 - w.finish + 1
    BY <2>1, FS_Interval
  <2>3. QED BY <1>1, <2>2 DEF Open
<1>3. /\ IsFiniteSet(running) /\ IsFiniteSet(ended)
      /\ Cardinality(running) \in Nat /\ Cardinality(ended) \in Nat
      /\ Cardinality(ended) = Cardinality(Open(w)) - Cardinality(running)
  <2>1. IsFiniteSet(running)
    BY <1>1, <1>2, FS_Subset
  <2>2. Open(w) \cap running = running
    BY <1>1
  <2>3. /\ IsFiniteSet(ended)
        /\ Cardinality(ended) = Cardinality(Open(w)) - Cardinality(running)
    <3>1. /\ IsFiniteSet(ended)
          /\ Cardinality(ended) = Cardinality(Open(w)) - Cardinality(Open(w) \cap running)
      BY <1>2, FS_Difference
    <3>2. QED BY <2>2, <3>1
  <2>4. QED BY <2>1, <2>3, FS_CardinalityType
<1>4. Cardinality(w.status) = Cardinality(ended)
  <2> DEFINE bit == [id \in ended |-> id % Window]
  <2>1. \A id \in ended : id % Window \in w.status
    BY <1>1 DEF WindowInv
  <2>2. \A x \in w.status : \E id \in ended : bit[id] = x
    <3> SUFFICES ASSUME NEW x \in w.status PROVE \E id \in ended : bit[id] = x
      OBVIOUS
    <3>1. PICK id \in Open(w) : x = id % Window
      BY DEF WindowInv
    <3>2. id \in ended
      BY <3>1 DEF WindowInv
    <3>3. QED BY <3>1, <3>2
  <2>3. \A a, b \in ended : bit[a] = bit[b] => a = b
    <3> SUFFICES ASSUME NEW a \in ended, NEW b \in ended, a % Window = b % Window
                 PROVE  a = b
      OBVIOUS
    <3>1. a \in w.finish .. w.accept - 1 /\ b \in w.finish .. w.accept - 1
      BY DEF Open
    <3>2. a \in Nat /\ b \in Nat /\ a - b < Window /\ b - a < Window
      BY <1>1, <3>1
    <3>3. QED BY <3>2, OwnBit
  <2>4. bit \in Bijection(ended, w.status)
    <3>1. bit \in [ended -> w.status]
      BY <2>1
    <3>2. QED BY <2>2, <2>3, <3>1, Fun_IsBij
  <2>5. ExistsBijection(ended, w.status)
    BY <2>4 DEF ExistsBijection
  <2>6. QED BY <1>3, <2>5, FS_Bijection
<1>5. Pending(w) = w.accept - w.finish
  BY PendingIs
<1>6. QED BY <1>1, <1>2, <1>3, <1>4, <1>5

(***************************************************************************)
(* While the ids do not wrap, the windows count the tasks exactly and no   *)
(* assertion of the four functions fails (sata_manager.c:47-48, 53-55,     *)
(* 61-62, 82-83).                                                          *)
(***************************************************************************)
THEOREM WindowsCounted == ASSUME NoWrap PROVE Spec => []WindowsCoherent
<1>1. IInv => WindowsCoherent
  <2>1. SUFFICES ASSUME IInv PROVE TypeOK /\ ~halted
    BY DEF WindowsCoherent
  <2>2. ASSUME NEW w, NEW running, WindowInv(w, running)
        PROVE  WindowOK(w) /\ running \subseteq 0 .. Ids - 1
    <3>1. /\ w.finish \in Nat /\ w.accept \in Nat /\ w.finish <= w.accept
          /\ w.accept < Ids /\ w.status \subseteq 0 .. Window - 1 /\ Ids \in Nat
          /\ running \subseteq w.finish .. w.accept - 1
      BY <2>2, WidthAssumption DEF WindowInv, Open
    <3>2. QED BY <3>1 DEF WindowOK
  <2>3. /\ WindowOK(rd) /\ reading \subseteq 0 .. Ids - 1
        /\ Pending(rd) = Cardinality(reading) + Cardinality(rd.status)
    BY <2>1, <2>2, TasksCounted DEF IInv, ReadInv
  <2>4. /\ WindowOK(wr) /\ writing \subseteq 0 .. Ids - 1
        /\ Pending(wr) = Cardinality(writing) + Cardinality(wr.status)
    BY <2>1, <2>2, TasksCounted DEF IInv, WriteInv
  <2>5. rdSet \in 0 .. ReadBuffers - 1 /\ rdPtr \in 0 .. ReadBuffers - 1 /\ sent \in Nat
    <3>1. rd.finish \in Nat /\ sent \in Nat
      BY <2>1 DEF IInv, ReadInv, WindowInv
    <3>2. QED BY <2>1, <3>1, OwnReadBuffer DEF IInv, ReadInv
  <2>6. wrSet \in 0 .. WriteBuffers - 1 /\ wrPtr \in 0 .. WriteBuffers - 1 /\ received \in Nat
    <3>1. wr.finish \in Nat /\ received \in Nat
      BY <2>1 DEF IInv, WriteInv, WindowInv
    <3>2. QED BY <2>1, <3>1, OwnWriteBuffer DEF IInv, WriteInv
  <2>7. QED BY <2>1, <2>3, <2>4, <2>5, <2>6 DEF TypeOK, IInv
<1>2. QED BY <1>1, IInvHolds, PTL

(***************************************************************************)
(* While the ids do not wrap, both windows are ordered windows of tasks:   *)
(* released in order, each as soon as it and those before it have ended.   *)
(***************************************************************************)
THEOREM OrderedWindows == ASSUME NoWrap PROVE Spec => Refines
<1>1. Init => Reads!TasksInit /\ Writes!TasksInit
  BY DEF Init, EmptyWindow, DoneIn, Reads!TasksInit, Writes!TasksInit
<1>2. IInv /\ [Next]_vars => [Reads!TasksNext]_Reads!taskVars /\ [Writes!TasksNext]_Writes!taskVars
  BY NextInv DEF Reads!taskVars, Writes!taskVars
<1>3. QED BY <1>1, <1>2, IInvHolds, PTL
      DEF Spec, Refines, Reads!TasksSpec, Writes!TasksSpec
=============================================================================
