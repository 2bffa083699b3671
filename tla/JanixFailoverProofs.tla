------------------------- MODULE JanixFailoverProofs -------------------------
(***************************************************************************)
(* Proofs about the failover count of module JanixFailover, for any number *)
(* of children and any range of a count.                                   *)
(*                                                                         *)
(* CountNeverAhead is not inductive: a child that has read the file will   *)
(* write a larger count whatever the others do meanwhile.  The             *)
(* strengthening charges every AK request to the child that handles it     *)
(* until that child has written: the file, and every count that was read   *)
(* and is still to be written, are at most base + kills less the children  *)
(* that have not written yet.                                              *)
(***************************************************************************)
EXTENDS JanixFailover, FiniteSetTheorems, TLAPS

\* The requests whose increment has reached the file, lost or not.
Written == kills - Cardinality(Pending)

\* No child is charged twice, and none that has read the file, or reads it back,
\* finds it above what the written increments allow.
Bounded ==
    /\ Written >= 0
    /\ log # <<>> => Head(log) <= base + Written
    /\ \A c \in Child : pc[c] = "write" => buffer[c] <= base + Written

\* A child reads back a file that some child has written.
WrittenBeforeRead == \A c \in Child : pc[c] = "get" => log # <<>>

\* A machine that is down runs no child and holds what was on its disk.
DownIsQuiet ==
    machine # "serving" => log = disk /\ pc = [c \in Child |-> "idle"]

\* Every request of a streak has been counted.
StreakWithinKills == streak <= kills

IInv ==
    /\ TypeOK
    /\ StreakWithinKills
    /\ DownIsQuiet
    /\ WrittenBeforeRead
    /\ machine = "serving" => Bounded
    /\ RebootAccountedFor

-----------------------------------------------------------------------------
LEMMA PendingFinite ==
    /\ IsFiniteSet(Pending)
    /\ Cardinality(Pending) \in Nat
<1>1. Pending \subseteq Child
  BY DEF Pending
<1> QED
  BY <1>1, ChildAssumption, FS_Subset, FS_CardinalityType

LEMMA PendingFiniteNext ==
    /\ IsFiniteSet(Pending')
    /\ Cardinality(Pending') \in Nat
<1>1. Pending' \subseteq Child
  BY DEF Pending
<1> QED
  BY <1>1, ChildAssumption, FS_Subset, FS_CardinalityType

\* A file is empty or holds one count.
LEMMA FileContents ==
    /\ <<>> \in Contents
    /\ \A n \in Count : <<n>> \in Contents
    /\ \A f \in Contents : f # <<>> => Head(f) \in Count
  BY DEF Contents

LEMMA LogHead ==
    ASSUME TypeOK, log # <<>>
    PROVE  Head(log) \in Count
  BY FileContents DEF TypeOK

\* A bound that has grown is still a bound.
LEMMA WeakerBound ==
    ASSUME NEW n \in Int, NEW old \in Int, NEW new \in Int, NEW w \in Int, old <= new
    PROVE  /\ n <= old + w => n <= new + w
           /\ n <= new /\ w >= 0 => n <= new + w
  OBVIOUS

\* An increment never gains more than one.
LEMMA SuccBound ==
    ASSUME NEW n \in Count
    PROVE  Succ(n) \in Count /\ Succ(n) <= n + 1
  BY CountAssumption DEF Succ, Count

-----------------------------------------------------------------------------
LEMMA InitIInv == Init => IInv
<1> SUFFICES ASSUME Init PROVE IInv
  OBVIOUS
<1>1. TypeOK
  <2>1. CharLo \in Count /\ 0 \in Count /\ 0 \in 0 .. MaxKills
    BY CountAssumption, MaxKillsAssumption DEF Count
  <2> QED
    BY <2>1, FileContents DEF Init, TypeOK
<1>2. Pending = {}
  BY DEF Init, Pending
<1>3. Written = 0
  BY <1>2, FS_EmptySet DEF Written, Init
<1> QED
  BY <1>1, <1>3 DEF Init, IInv, DownIsQuiet, WrittenBeforeRead, Bounded,
                    RebootAccountedFor, StreakWithinKills

LEMMA ReceiveKillStep ==
    ASSUME IInv, NEW c \in Child, ReceiveKill(c)
    PROVE  IInv'
<1> USE DEF IInv
<1>1. TypeOK'
  BY MaxKillsAssumption DEF ReceiveKill, TypeOK, StreakWithinKills
<1>2. Pending' = Pending \cup {c} /\ c \notin Pending
  BY DEF ReceiveKill, TypeOK, Pending
<1>3. Cardinality(Pending') = Cardinality(Pending) + 1
  BY <1>2, PendingFinite, FS_AddElement
<1>4. Written' = Written
  BY <1>3, PendingFinite DEF Written, ReceiveKill, TypeOK
<1>5. Bounded' /\ WrittenBeforeRead' /\ DownIsQuiet' /\ RebootAccountedFor' /\ StreakWithinKills'
  BY <1>4 DEF ReceiveKill, TypeOK, Bounded, WrittenBeforeRead, DownIsQuiet,
              RebootAccountedFor, StreakWithinKills
<1> QED
  BY <1>1, <1>5

LEMMA ReadStep ==
    ASSUME IInv, NEW c \in Child, Read(c)
    PROVE  IInv'
<1> USE DEF IInv
<1>0. machine = "serving"
  BY DEF DownIsQuiet, Read, TypeOK
<1>1. PICK n \in Readable : buffer' = [buffer EXCEPT ![c] = n]
  BY DEF Read
<1>2. n \in Count /\ buffer'[c] = n
  BY <1>1, CountAssumption, LogHead DEF Readable, TypeOK
<1>3. TypeOK'
  BY <1>1, <1>2 DEF Read, TypeOK
<1>4. Pending' = Pending /\ Written' = Written
  <2>1. Pending' = Pending
    BY DEF Read, TypeOK, Pending
  <2> QED
    BY <2>1 DEF Read, Written
<1>5. /\ base' >= base
      /\ log = <<>> => n <= base'
      /\ base' \in Int /\ base \in Int /\ Written \in Int /\ n \in Int
  <2>1. Written \in Int
    BY PendingFinite, MaxKillsAssumption DEF Written, TypeOK
  <2> QED
    BY <1>2, <2>1, CountAssumption DEF Read, TypeOK, Count
<1>6. log # <<>> => n = Head(log) /\ Head(log) \in Int
  BY <1>1, LogHead, CountAssumption DEF Readable, Count
<1>7. n <= base' + Written
  <2>1. Written >= 0 /\ (log # <<>> => Head(log) <= base + Written)
    BY <1>0 DEF Bounded
  <2>2. CASE log = <<>>
    BY <1>5, <2>1, <2>2, WeakerBound
  <2>3. CASE log # <<>>
    <3>1. n <= base + Written
      BY <1>6, <2>1, <2>3
    <3> QED
      BY <1>5, <3>1, WeakerBound
  <2> QED
    BY <2>2, <2>3
<1>8. Bounded'
  <2>1. log # <<>> => Head(log) <= base' + Written
    BY <1>0, <1>5, <1>6 DEF Bounded
  <2>2. \A d \in Child : pc'[d] = "write" => buffer'[d] <= base' + Written
    <3>1. SUFFICES ASSUME NEW d \in Child, pc'[d] = "write", d # c
                   PROVE  buffer'[d] <= base' + Written
      BY <1>2, <1>7
    <3>2. buffer'[d] = buffer[d] /\ pc[d] = "write" /\ buffer[d] \in Int
      BY <1>1, <3>1, CountAssumption DEF Read, TypeOK, Count
    <3> QED
      BY <1>0, <1>5, <3>2 DEF Bounded
  <2> QED
    BY <1>0, <1>4, <2>1, <2>2 DEF Bounded, Read
<1>9. WrittenBeforeRead' /\ DownIsQuiet' /\ RebootAccountedFor' /\ StreakWithinKills'
  BY <1>0 DEF Read, TypeOK, WrittenBeforeRead, DownIsQuiet, RebootAccountedFor, StreakWithinKills
<1> QED
  BY <1>3, <1>8, <1>9

LEMMA WriteStep ==
    ASSUME IInv, NEW c \in Child, Write(c)
    PROVE  IInv'
<1> USE DEF IInv
<1>0. machine = "serving"
  BY DEF DownIsQuiet, Write, TypeOK
<1>1. buffer[c] \in Count /\ Succ(buffer[c]) \in Count /\ Succ(buffer[c]) <= buffer[c] + 1
  BY SuccBound DEF TypeOK
<1>2. log' = <<Succ(buffer[c])>> /\ log' # <<>> /\ Head(log') = Succ(buffer[c])
  BY DEF Write
<1>3. TypeOK'
  BY <1>1, <1>2, FileContents, CountAssumption DEF Write, TypeOK, Count
<1>4. Pending' = Pending \ {c} /\ c \in Pending
  BY DEF Write, TypeOK, Pending
<1>5. Written' = Written + 1 /\ Written \in Int
  <2>1. Cardinality(Pending') = Cardinality(Pending) - 1
    BY <1>4, PendingFinite, FS_RemoveElement
  <2> QED
    BY <2>1, PendingFinite, MaxKillsAssumption DEF Write, Written, TypeOK
<1>6. base' = base /\ base \in Int
  BY CountAssumption DEF Write, TypeOK, Count
<1>7. Bounded'
  <2>1. buffer[c] <= base + Written /\ buffer[c] \in Int /\ Succ(buffer[c]) \in Int
    BY <1>0, <1>1, CountAssumption DEF Bounded, Write, Count
  <2>2. Head(log') <= base' + Written'
    BY <1>1, <1>2, <1>5, <1>6, <2>1
  <2>3. \A d \in Child : pc'[d] = "write" => buffer'[d] <= base' + Written'
    <3>1. SUFFICES ASSUME NEW d \in Child, pc'[d] = "write"
                   PROVE  buffer'[d] <= base' + Written'
      OBVIOUS
    <3>2. buffer'[d] = buffer[d] /\ pc[d] = "write" /\ buffer[d] \in Int
      BY <3>1, CountAssumption DEF Write, TypeOK, Count
    <3> QED
      BY <1>0, <1>5, <1>6, <3>2 DEF Bounded
  <2>4. Written' >= 0
    BY <1>0, <1>5 DEF Bounded
  <2> QED
    BY <1>2, <2>2, <2>3, <2>4 DEF Bounded
<1>8. WrittenBeforeRead' /\ DownIsQuiet' /\ RebootAccountedFor' /\ StreakWithinKills'
  BY <1>0, <1>2 DEF Write, TypeOK, WrittenBeforeRead, DownIsQuiet, RebootAccountedFor, StreakWithinKills
<1> QED
  BY <1>3, <1>7, <1>8

\* A child that does not reboot the machine ends.
LEMMA ChildEndsStep ==
    ASSUME IInv, NEW c \in Child, BelowThreshold(c) \/ RebootCrashes(c)
    PROVE  IInv'
<1> USE DEF IInv
<1>1. TypeOK'
  BY DEF BelowThreshold, RebootCrashes, TypeOK
<1>2. Pending' = Pending
  BY DEF BelowThreshold, RebootCrashes, TypeOK, Pending
<1>3. Written' = Written
  BY <1>2 DEF BelowThreshold, RebootCrashes, Written
<1>4. machine = "serving"
  BY DEF DownIsQuiet, BelowThreshold, RebootCrashes, TypeOK
<1>5. Bounded' /\ WrittenBeforeRead' /\ DownIsQuiet' /\ RebootAccountedFor' /\ StreakWithinKills'
  BY <1>3, <1>4 DEF BelowThreshold, RebootCrashes, TypeOK, Bounded,
                    WrittenBeforeRead, DownIsQuiet, RebootAccountedFor, StreakWithinKills
<1> QED
  BY <1>1, <1>5

\* The machine goes down, for the reason that is recorded.
LEMMA GoDownStep ==
    ASSUME IInv, NEW how \in {"rebooting", "dark"}, GoDown(how),
           how = "rebooting" => base + kills > Threshold
    PROVE  IInv'
<1> USE DEF IInv
<1>1. TypeOK'
  BY CountAssumption DEF GoDown, TypeOK, Count
<1>2. DownIsQuiet' /\ WrittenBeforeRead' /\ RebootAccountedFor' /\ StreakWithinKills'
  BY DEF GoDown, DownIsQuiet, WrittenBeforeRead, RebootAccountedFor, StreakWithinKills
<1> QED
  BY <1>1, <1>2 DEF GoDown

LEMMA RebootStep ==
    ASSUME IInv, NEW c \in Child, Reboot(c)
    PROVE  IInv'
<1> USE DEF IInv
<1>1. machine = "serving" /\ log # <<>>
  BY DEF DownIsQuiet, WrittenBeforeRead, Reboot, TypeOK
<1>2. Head(log) <= base + Written /\ Head(log) \in Int /\ Head(log) > Threshold
  BY <1>1, LogHead, CountAssumption DEF Bounded, Reboot, Count
<1>3. /\ Written <= kills /\ Written \in Int /\ kills \in Int
      /\ base \in Int /\ Threshold \in Int
  BY PendingFinite, MaxKillsAssumption, CountAssumption DEF Written, TypeOK, Count
<1>4. base + kills > Threshold
  BY <1>2, <1>3
<1> QED
  BY <1>4, GoDownStep DEF Reboot

LEMMA BootStep ==
    ASSUME IInv, Boot
    PROVE  IInv'
<1> USE DEF IInv
<1>1. /\ log' = log /\ log = disk /\ base' = BootCount /\ kills' = 0
      /\ pc' = pc /\ pc = [c \in Child |-> "idle"] /\ machine' = "serving"
      /\ streak' = 0
  BY DEF Boot, ResetFailoverCount, DownIsQuiet
<1>2. BootCount \in Count /\ (log # <<>> => BootCount = Head(log))
  BY <1>1, LogHead, CountAssumption DEF BootCount, Count
<1>3. TypeOK'
  <2>1. 0 \in 0 .. MaxKills /\ base' \in Count
    BY <1>1, <1>2, MaxKillsAssumption
  <2> QED
    BY <1>1, <2>1 DEF Boot, TypeOK
<1>4. Pending' = {}
  BY <1>1 DEF Pending
<1>5. Written' = 0
  BY <1>1, <1>4, FS_EmptySet DEF Written
<1>6. Bounded'
  <2>1. log # <<>> => Head(log) <= BootCount + 0
    BY <1>2, CountAssumption DEF Count
  <2> QED
    BY <1>1, <1>5, <2>1 DEF Bounded
<1>7. WrittenBeforeRead' /\ DownIsQuiet' /\ RebootAccountedFor' /\ StreakWithinKills'
  BY <1>1 DEF WrittenBeforeRead, DownIsQuiet, RebootAccountedFor, StreakWithinKills
<1> QED
  BY <1>3, <1>6, <1>7

\* Other requests and the writing out of the file leave all of it alone.
LEMMA QuietStep ==
    ASSUME IInv, ReceiveOther \/ Flush \/ UNCHANGED vars
    PROVE  IInv'
<1> USE DEF IInv
<1>1. /\ machine' = machine /\ log' = log /\ pc' = pc /\ buffer' = buffer
      /\ kills' = kills /\ base' = base /\ overlapped' = overlapped
  BY DEF ReceiveOther, ResetFailoverCount, Flush, vars
<1>2. disk' = disk \/ (machine = "serving" /\ disk' = log)
  BY DEF ReceiveOther, Flush, vars
<1>3. streak' \in {0, streak}
  BY DEF ReceiveOther, Flush, vars
<1>4. TypeOK'
  BY <1>1, <1>2, <1>3, MaxKillsAssumption DEF TypeOK
<1>5. Written' = Written
  BY <1>1 DEF Written, Pending
<1>6. Bounded' <=> Bounded
  BY <1>1, <1>5 DEF Bounded
<1>7. WrittenBeforeRead' /\ DownIsQuiet' /\ RebootAccountedFor' /\ StreakWithinKills'
  BY <1>1, <1>2, <1>3, MaxKillsAssumption
  DEF WrittenBeforeRead, DownIsQuiet, RebootAccountedFor, StreakWithinKills, TypeOK
<1> QED
  BY <1>1, <1>4, <1>6, <1>7

LEMMA NextIInv ==
    ASSUME IInv, [Next]_vars
    PROVE  IInv'
<1>1. CASE PowerLoss
  BY <1>1, GoDownStep DEF PowerLoss
<1>2. CASE \E c \in Child : ReceiveKill(c) \/ Read(c) \/ Write(c)
               \/ BelowThreshold(c) \/ Reboot(c) \/ RebootCrashes(c)
  BY <1>2, ReceiveKillStep, ReadStep, WriteStep, ChildEndsStep, RebootStep
<1> QED
  BY <1>1, <1>2, BootStep, QuietStep DEF Next

LEMMA IInvHolds == Spec => []IInv
  BY InitIInv, NextIInv, PTL DEF Spec

-----------------------------------------------------------------------------
\* Every reachable state is well typed: a count stays in the range of a char.
THEOREM TypeCorrect == Spec => []TypeOK
<1>1. IInv => TypeOK
  BY DEF IInv
<1> QED
  BY <1>1, IInvHolds, PTL

\* However many children race, the file is never ahead of the requests received.
THEOREM NoIncrementInvented == Spec => []CountNeverAhead
<1>1. IInv => CountNeverAhead
  <2> SUFFICES ASSUME IInv, log # <<>>, machine = "serving"
               PROVE  Head(log) <= base + kills
    BY DEF CountNeverAhead
  <2>1. Head(log) <= base + Written /\ Head(log) \in Int
    BY LogHead, CountAssumption DEF IInv, Bounded, Count
  <2>2. Written <= kills /\ Written \in Int /\ kills \in Int /\ base \in Int
    BY PendingFinite, MaxKillsAssumption, CountAssumption DEF IInv, Written, TypeOK, Count
  <2> QED
    BY <2>1, <2>2
<1> QED
  BY <1>1, IInvHolds, PTL

\* A deliberate reboot is always accounted for by the requests received and the
\* count found at boot.
THEOREM RebootsAccountedFor == Spec => []RebootAccountedFor
<1>1. IInv => RebootAccountedFor
  BY DEF IInv
<1> QED
  BY <1>1, IInvHolds, PTL

-----------------------------------------------------------------------------
(***************************************************************************)
(* Without overlap the count is exact.  The file alone does not say so     *)
(* between a read and the write that follows it: the one child that is     *)
(* there carries the same number as the file, and when the file is still   *)
(* empty it carries the number that the count is said to start from.       *)
(***************************************************************************)

\* The number of counts.
Span == CharHi - CharLo + 1

\* Where the written increments have taken the count.
Mark == CharLo + ((base - CharLo + Written) % Span)

Exact ==
    machine = "serving" /\ ~overlapped =>
        /\ \A c, d \in Child : pc[c] = "write" /\ pc[d] = "write" => c = d
        /\ log = <<>> => Written = 0
        /\ log = <<>> /\ (\A c \in Child : pc[c] # "write") => base = CharLo
        /\ log # <<>> => Head(log) = Mark
        /\ \A c \in Child : pc[c] = "write" => buffer[c] = Mark

LEMMA RangeIs == Span \in Nat /\ Span > 0 /\ Cardinality(Count) = Span
<1>1. /\ CharLo \in Int /\ CharHi \in Int /\ CharLo <= CharHi
  BY CountAssumption
<1>2. Cardinality(Count) = CharHi - CharLo + 1
  BY <1>1, FS_Interval DEF Count
<1> QED
  BY <1>1, <1>2 DEF Span

LEMMA ModRange ==
    ASSUME NEW n \in Nat, n > 0, NEW x \in Nat
    PROVE  x % n \in 0 .. (n - 1)
  OBVIOUS

LEMMA ModSplit ==
    ASSUME NEW n \in Nat, n > 0, NEW x \in Nat
    PROVE  x \div n \in Int /\ x = (n * (x \div n)) + (x % n)
  OBVIOUS

LEMMA ModSmall ==
    ASSUME NEW n \in Nat, n > 0, NEW x \in 0 .. (n - 1)
    PROVE  x % n = x
  OBVIOUS

LEMMA ModJoin ==
    ASSUME NEW n \in Nat, n > 0, NEW q \in Int, NEW r \in 0 .. (n - 1)
    PROVE  (n * q + r) % n = r
  OBVIOUS

LEMMA ModSucc ==
    ASSUME NEW n \in Nat, n > 0, NEW x \in Nat
    PROVE  (x + 1) % n = IF x % n = n - 1 THEN 0 ELSE (x % n) + 1
<1> DEFINE q == x \div n
           r == x % n
<1>1. q \in Int /\ r \in 0 .. (n - 1) /\ x = n * q + r
  BY ModRange, ModSplit
<1>2. CASE r = n - 1
  <2>1. n * (q + 1) = n * q + n
    BY <1>1
  <2>2. x + 1 = n * (q + 1) + 0 /\ q + 1 \in Int /\ 0 \in 0 .. (n - 1)
    BY <1>1, <1>2, <2>1
  <2>3. (n * (q + 1) + 0) % n = 0
    BY <2>2, ModJoin
  <2> QED
    BY <1>2, <2>2, <2>3
<1>3. CASE r # n - 1
  <2>1. x + 1 = n * q + (r + 1) /\ r + 1 \in 0 .. (n - 1)
    BY <1>1, <1>3
  <2>2. (n * q + (r + 1)) % n = r + 1
    BY <1>1, <2>1, ModJoin
  <2> QED
    BY <1>3, <2>1, <2>2
<1> QED
  BY <1>2, <1>3

\* A char's increment is the successor modulo the number of counts.
LEMMA SuccOfMark ==
    ASSUME NEW x \in Nat
    PROVE  Succ(CharLo + (x % Span)) = CharLo + ((x + 1) % Span)
<1>1. x % Span \in 0 .. (Span - 1)
  BY RangeIs, ModRange
<1>2. (x + 1) % Span = IF x % Span = Span - 1 THEN 0 ELSE (x % Span) + 1
  BY RangeIs, ModSucc
<1> QED
  BY <1>1, <1>2, CountAssumption DEF Succ, Span

\* A count is its own distance from the lowest one.
LEMMA MarkOfCount ==
    ASSUME NEW n \in Count
    PROVE  CharLo + ((n - CharLo + 0) % Span) = n
<1>1. n - CharLo + 0 \in 0 .. (Span - 1) /\ n \in Int /\ CharLo \in Int
  BY CountAssumption DEF Count, Span
<1> DEFINE x == n - CharLo + 0
<1>2. x % Span = x
  BY <1>1, RangeIs, ModSmall
<1> QED
  BY <1>1, <1>2

LEMMA InitExact == Init => Exact
<1> SUFFICES ASSUME Init PROVE Exact
  OBVIOUS
<1>1. Pending = {}
  BY DEF Init, Pending
<1>2. Written = 0
  BY <1>1, FS_EmptySet DEF Written, Init
<1> QED
  BY <1>2 DEF Init, Exact

LEMMA ExactReceiveKill ==
    ASSUME IInv, Exact, NEW c \in Child, ReceiveKill(c)
    PROVE  Exact'
<1>0. TypeOK
  BY DEF IInv
<1>1. Pending' = Pending \cup {c} /\ c \notin Pending
  BY <1>0 DEF ReceiveKill, TypeOK, Pending
<1>2. Written' = Written
  <2>1. Cardinality(Pending') = Cardinality(Pending) + 1
    BY <1>1, PendingFinite, FS_AddElement
  <2> QED
    BY <1>0, <2>1, PendingFinite, MaxKillsAssumption DEF Written, ReceiveKill, TypeOK
<1>3. Mark' = Mark
  BY <1>2 DEF Mark, ReceiveKill
<1>4. \A d \in Child : pc'[d] = "write" <=> pc[d] = "write"
  BY <1>0 DEF ReceiveKill, TypeOK
<1> QED
  BY <1>2, <1>3, <1>4 DEF Exact, ReceiveKill

LEMMA ExactRead ==
    ASSUME IInv, Exact, NEW c \in Child, Read(c)
    PROVE  Exact'
<1>0. TypeOK /\ machine = "serving"
  BY DEF IInv, DownIsQuiet, Read, TypeOK
<1>1. PICK n \in Readable : buffer' = [buffer EXCEPT ![c] = n]
  BY DEF Read
<1>2. n \in Count /\ buffer'[c] = n
  BY <1>0, <1>1, CountAssumption, LogHead DEF Readable, TypeOK
<1> SUFFICES ASSUME ~overlapped' PROVE Exact'
  BY DEF Exact
<1>3. ~overlapped /\ \A d \in Child : pc[d] # "write"
  BY DEF Read
<1>4. \A d \in Child : pc'[d] = "write" <=> d = c
  BY <1>0, <1>3 DEF Read, TypeOK
<1>5. Written' = Written /\ log' = log
  <2>1. Pending' = Pending
    BY <1>0 DEF Read, TypeOK, Pending
  <2> QED
    BY <2>1 DEF Read, Written
<1>6. CASE log = <<>>
  <2>1. Written = 0 /\ base = CharLo
    BY <1>0, <1>3, <1>6 DEF Exact
  <2>2. base' = n
    BY <1>2, <1>6, <2>1, CountAssumption DEF Read, Count
  <2>3. Mark' = n
    BY <1>2, <1>5, <2>1, <2>2, MarkOfCount DEF Mark
  <2> QED
    BY <1>2, <1>4, <1>5, <1>6, <2>1, <2>3 DEF Exact
<1>7. CASE log # <<>>
  <2>1. n = Head(log) /\ Head(log) = Mark
    BY <1>0, <1>1, <1>3, <1>7 DEF Exact, Readable
  <2>2. Mark' = Mark
    BY <1>5, <1>7 DEF Mark, Read
  <2> QED
    BY <1>2, <1>4, <1>5, <1>7, <2>1, <2>2 DEF Exact
<1> QED
  BY <1>6, <1>7

LEMMA ExactWrite ==
    ASSUME IInv, Exact, NEW c \in Child, Write(c)
    PROVE  Exact'
<1>0. TypeOK /\ machine = "serving"
  BY DEF IInv, DownIsQuiet, Write, TypeOK
<1> SUFFICES ASSUME ~overlapped' PROVE Exact'
  BY DEF Exact
<1>1. /\ ~overlapped /\ buffer[c] = Mark
      /\ \A d \in Child : pc[d] = "write" => d = c
  BY <1>0 DEF Write, Exact
<1>2. \A d \in Child : pc'[d] # "write"
  BY <1>0, <1>1 DEF Write, TypeOK
<1>3. log' = <<Succ(buffer[c])>> /\ log' # <<>> /\ Head(log') = Succ(buffer[c])
  BY DEF Write
<1>4. Written' = Written + 1 /\ Written \in Nat
  <2>1. Pending' = Pending \ {c} /\ c \in Pending
    BY <1>0 DEF Write, TypeOK, Pending
  <2>2. Cardinality(Pending') = Cardinality(Pending) - 1
    BY <2>1, PendingFinite, FS_RemoveElement
  <2>3. Written >= 0
    BY <1>0 DEF IInv, Bounded
  <2> QED
    BY <1>0, <2>2, <2>3, PendingFinite, MaxKillsAssumption DEF Write, Written, TypeOK
<1> DEFINE x == base - CharLo + Written
<1>5. /\ x \in Nat
      /\ base' - CharLo + Written' = x + 1
  BY <1>0, <1>4, CountAssumption DEF Write, TypeOK, Count
<1>6. Mark' = CharLo + ((x + 1) % Span)
  BY <1>5 DEF Mark, Span
<1>7. Mark = CharLo + (x % Span)
  BY DEF Mark
<1>8. Succ(buffer[c]) = Mark'
  <2> HIDE DEF x
  <2> QED
    BY <1>1, <1>5, <1>6, <1>7, SuccOfMark
<1> QED
  BY <1>2, <1>3, <1>8 DEF Exact

LEMMA ExactBoot ==
    ASSUME IInv, Exact, Boot
    PROVE  Exact'
<1>0. TypeOK
  BY DEF IInv
<1>1. /\ log' = log /\ log = disk /\ base' = BootCount /\ kills' = 0
      /\ pc' = pc /\ pc = [c \in Child |-> "idle"]
  BY DEF IInv, Boot, ResetFailoverCount, DownIsQuiet
<1>2. Pending' = {}
  BY <1>1 DEF Pending
<1>3. Written' = 0
  BY <1>1, <1>2, FS_EmptySet DEF Written
<1>4. log # <<>> => BootCount = Head(log) /\ BootCount \in Count
  BY <1>0, <1>1, LogHead DEF BootCount
<1>5. log # <<>> => Mark' = BootCount
  BY <1>1, <1>3, <1>4, MarkOfCount DEF Mark, Span
<1>6. log = <<>> => base' = CharLo
  BY <1>1 DEF BootCount
<1> QED
  BY <1>1, <1>3, <1>4, <1>5, <1>6 DEF Exact

\* A child that ends, another request, a write to disk: nothing that counts.
LEMMA ExactQuiet ==
    ASSUME IInv, Exact,
           \/ \E c \in Child : BelowThreshold(c) \/ RebootCrashes(c)
           \/ ReceiveOther \/ Flush \/ UNCHANGED vars
    PROVE  Exact'
<1>0. TypeOK
  BY DEF IInv
<1>1. /\ machine' = machine /\ log' = log /\ buffer' = buffer
      /\ kills' = kills /\ base' = base /\ overlapped' = overlapped
  BY DEF BelowThreshold, RebootCrashes, ReceiveOther, ResetFailoverCount, Flush, vars
<1>2. \A d \in Child : /\ pc'[d] = "write" <=> pc[d] = "write"
                       /\ pc'[d] = "read" <=> pc[d] = "read"
  BY <1>0 DEF BelowThreshold, RebootCrashes, ReceiveOther, Flush, vars, TypeOK
<1>3. Pending' = Pending
  BY <1>2 DEF Pending
<1>4. Written' = Written /\ Mark' = Mark
  BY <1>1, <1>3 DEF Written, Mark, Span
<1> QED
  BY <1>1, <1>2, <1>4 DEF Exact

LEMMA NextExact ==
    ASSUME IInv, Exact, [Next]_vars
    PROVE  Exact'
<1>1. ASSUME NEW how \in {"rebooting", "dark"}, GoDown(how)
      PROVE  Exact'
  BY <1>1 DEF GoDown, Exact
<1>2. CASE PowerLoss
  BY <1>1, <1>2 DEF PowerLoss
<1>3. CASE \E c \in Child : Reboot(c)
  BY <1>1, <1>3 DEF Reboot
<1>4. CASE \E c \in Child : ReceiveKill(c) \/ Read(c) \/ Write(c)
               \/ BelowThreshold(c) \/ RebootCrashes(c)
  BY <1>4, ExactReceiveKill, ExactRead, ExactWrite, ExactQuiet
<1> QED
  BY <1>2, <1>3, <1>4, ExactBoot, ExactQuiet DEF Next

\* As long as no two children overlap, the file counts every AK request, modulo
\* the range of a char, whatever other requests come in between.
THEOREM CountExactUnlessOverlapped == Spec => []ExactUnlessOverlapped
<1>1. IInv /\ Exact => ExactUnlessOverlapped
  <2> SUFFICES ASSUME IInv, Exact, ~overlapped, log # <<>>, machine = "serving"
               PROVE  Head(log) = CharLo + ((base - CharLo + kills - Cardinality(Pending))
                                              % Cardinality(Count))
    BY DEF ExactUnlessOverlapped
  <2>1. base - CharLo + kills - Cardinality(Pending) = base - CharLo + Written
    BY PendingFinite, CountAssumption, MaxKillsAssumption DEF Written, IInv, TypeOK, Count
  <2> QED
    BY <2>1, RangeIs DEF Exact, Mark
<1>2. Init => IInv /\ Exact
  BY InitIInv, InitExact
<1>3. IInv /\ Exact /\ [Next]_vars => IInv' /\ Exact'
  BY NextIInv, NextExact
<1> QED
  BY <1>1, <1>2, <1>3, PTL DEF Spec

=============================================================================
