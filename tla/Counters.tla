------------------------------ MODULE Counters ------------------------------
(***************************************************************************)
(* The named counters Statistics keeps in the "Counter" and               *)
(* "Counter_Desc" groups of global::stats() (Statistics.cpp).  Every      *)
(* counter call goes to the global object, whatever object it is called  *)
(* on.  counter and desc map the names that have an entry in each group  *)
(* to the entry.  A counter is an int of IntWidth bits; the unsigned      *)
(* argument of increaseCounter/decreaseCounter has the same width, so    *)
(* readEntry(pName, 0) +/- n is computed modulo 2^IntWidth and the result *)
(* is narrowed back to int by the assignment to entry_value.             *)
(* exact is a history variable: the value each counter would have in      *)
(* unbounded integers.                                                    *)
(***************************************************************************)
EXTENDS Integers, TLC

CONSTANTS
    CounterNames,   \* names a counter may be added under
    Descs,          \* descriptions, including "no description"
    IntWidth,       \* bits of int and unsigned int
    UArgs,          \* unsigned arguments of increase/decreaseCounter
    IntArgs,        \* int arguments of resetCounter
    MaxCalls        \* bound on the number of counter calls

ASSUME IntWidth \in Nat /\ IntWidth > 1
ASSUME UArgs \subseteq 0..(2^IntWidth - 1)
ASSUME IntArgs \subseteq (-(2^(IntWidth - 1)))..(2^(IntWidth - 1) - 1)

VARIABLES
    counter,        \* the "Counter" group: name -> int
    desc,           \* the "Counter_Desc" group: name -> description
    exact,          \* history: name -> the unbounded value of the counter
    calls,          \* number of calls made so far
    lastCall        \* the last call: [op, name, arg, ret]

vars == <<counter, desc, exact, calls, lastCall>>

\* Conversion of an integer to int: the value modulo 2^IntWidth, read as
\* two's complement.
ToInt(x) ==
    LET m == 2^IntWidth
        r == x % m
    IN  IF r >= m \div 2 THEN r - m ELSE r

hasEntry(g, n) == n \in DOMAIN g

\* writeEntry(pName, v): the entry is added or replaced.
writeEntry(g, n, v) == [k \in DOMAIN g \cup {n} |-> IF k = n THEN v ELSE g[k]]

Call(op, n, a, r) == lastCall' = [op |-> op, name |-> n, arg |-> a, ret |-> r]

Counting ==
    /\ calls < MaxCalls
    /\ calls' = calls + 1

-----------------------------------------------------------------------------
Init ==
    /\ counter = <<>>
    /\ desc = <<>>
    /\ exact = <<>>
    /\ calls = 0
    /\ lastCall = [op |-> "none", name |-> "none", arg |-> 0, ret |-> FALSE]

\* addCounter(pName[, pDesc]): false when the counter exists; otherwise it
\* starts at 0 with its description ("no description" by default).
AddCounter(n, d) ==
    /\ Counting
    /\ IF hasEntry(counter, n)
       THEN /\ Call("add", n, 0, FALSE)
            /\ UNCHANGED <<counter, desc, exact>>
       ELSE /\ counter' = writeEntry(counter, n, 0)
            /\ desc' = writeEntry(desc, n, d)
            /\ exact' = writeEntry(exact, n, 0)
            /\ Call("add", n, 0, TRUE)

\* increaseCounter(pName, incNumber): false when the counter is missing.
IncreaseCounter(n, u) ==
    /\ Counting
    /\ IF ~hasEntry(counter, n)
       THEN /\ Call("increase", n, u, FALSE)
            /\ UNCHANGED <<counter, desc, exact>>
       ELSE /\ counter' = writeEntry(counter, n, ToInt(counter[n] + u))
            /\ exact' = writeEntry(exact, n, exact[n] + u)
            /\ Call("increase", n, u, TRUE)
            /\ UNCHANGED desc

\* Mutant: decreaseCounter copied from increaseCounter adds decNumber.
DecreaseCounterAdds(n, u) ==
    /\ Counting
    /\ IF ~hasEntry(counter, n)
       THEN /\ Call("decrease", n, u, FALSE)
            /\ UNCHANGED <<counter, desc, exact>>
       ELSE /\ counter' = writeEntry(counter, n, ToInt(counter[n] + u))
            /\ exact' = writeEntry(exact, n, exact[n] - u)
            /\ Call("decrease", n, u, TRUE)
            /\ UNCHANGED desc

\* decreaseCounter(pName, decNumber): false when the counter is missing.
DecreaseCounter(n, u) ==
    /\ Counting
    /\ IF ~hasEntry(counter, n)
       THEN /\ Call("decrease", n, u, FALSE)
            /\ UNCHANGED <<counter, desc, exact>>
       ELSE /\ counter' = writeEntry(counter, n, ToInt(counter[n] - u))
            /\ exact' = writeEntry(exact, n, exact[n] - u)
            /\ Call("decrease", n, u, TRUE)
            /\ UNCHANGED desc

\* resetCounter(pName, initNum): false when the counter is missing.
ResetCounter(n, i) ==
    /\ Counting
    /\ IF ~hasEntry(counter, n)
       THEN /\ Call("reset", n, i, FALSE)
            /\ UNCHANGED <<counter, desc, exact>>
       ELSE /\ counter' = writeEntry(counter, n, i)
            /\ exact' = writeEntry(exact, n, i)
            /\ Call("reset", n, i, TRUE)
            /\ UNCHANGED desc

Next ==
    \/ \E n \in CounterNames, d \in Descs : AddCounter(n, d)
    \/ \E n \in CounterNames, u \in UArgs : IncreaseCounter(n, u) \/ DecreaseCounter(n, u)
    \/ \E n \in CounterNames, i \in IntArgs : ResetCounter(n, i)

Spec == Init /\ [][Next]_vars

-----------------------------------------------------------------------------
IntRange == (-(2^(IntWidth - 1)))..(2^(IntWidth - 1) - 1)

\* Every counter holds exactly its unbounded value taken modulo the int
\* width, and has a description: the unsigned arithmetic in increase- and
\* decreaseCounter round-trips through int (a counter decreased below
\* zero reads back negative, not as a huge unsigned value), and neither
\* addCounter on an existing name nor any other call loses a count.
CounterIsExactModWidth ==
    /\ DOMAIN counter = DOMAIN exact
    /\ DOMAIN counter \subseteq DOMAIN desc
    /\ \A n \in DOMAIN counter : counter[n] = ToInt(exact[n])

\* increaseCounter never makes a counter smaller.
IncreaseNeverDecreases ==
    [][lastCall'.op = "increase" /\ lastCall'.ret /\ calls' # calls
         => counter'[lastCall'.name] >= counter[lastCall'.name]]_vars
=============================================================================
