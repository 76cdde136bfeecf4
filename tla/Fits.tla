-------------------------------- MODULE Fits --------------------------------
(***************************************************************************)
(* DataBase::fits, the SQL function FITS(inode, size, free, num_found,     *)
(* total), the last three pointers, that the store registers for          *)
(* migration: a query evaluates it                                        *)
(* once per candidate row, in scan order, with three counters held by the  *)
(* caller, and keeps the rows it returns 1 for. The scan is first-fit      *)
(* selection of files into the free space of a tape.                       *)
(*                                                                         *)
(* One step is one evaluation of FITS on the next row; the result is       *)
(* compared with a declarative first-fit reference over all small inputs.  *)
(***************************************************************************)
EXTENDS Naturals, Sequences, FiniteSets, FiniteSetsExt

CONSTANTS
    Sizes,      \* file sizes a row can carry
    MaxRows,    \* bound on the number of candidate rows
    MaxFree     \* bound on the initial free space

VARIABLES
    sizes,      \* FILE_SIZE of the candidate rows, in scan order
    free0,      \* *free when the query starts
    row,        \* the next row FITS is evaluated on
    cnt,        \* [free, numFound, total]: the three caller counters
    found       \* rows for which FITS returned 1

fvars == <<sizes, free0, row, cnt, found>>

Inputs == UNION {[1..n -> Sizes] : n \in 0..MaxRows}

\* FITS with `*free > size`: a row that exactly fills the space is refused
FitsStrict(size, c) ==
    IF c.free > size
    THEN [free |-> c.free - size, numFound |-> c.numFound + 1, total |-> c.total + 1, res |-> 1]
    ELSE [c EXCEPT !.total = @ + 1, !.res = 0]

\* FITS that takes every row without comparing it with the free space
FitsUnguarded(size, c) ==
    [free |-> c.free - size, numFound |-> c.numFound + 1, total |-> c.total + 1, res |-> 1]

\* one call of DataBase::fits on counters c; res is sqlite3_result_int
Fits(size, c) ==
    IF c.free >= size
    THEN [free |-> c.free - size, numFound |-> c.numFound + 1, total |-> c.total + 1, res |-> 1]
    ELSE [c EXCEPT !.total = @ + 1, !.res = 0]

Init ==
    /\ sizes \in Inputs
    /\ free0 \in 0..MaxFree
    /\ row = 1
    /\ cnt = [free |-> free0, numFound |-> 0, total |-> 0, res |-> 0]
    /\ found = {}

\* the query evaluates FITS on the next row
ScanRow ==
    /\ row <= Len(sizes)
    /\ LET c == Fits(sizes[row], cnt) IN
         /\ cnt' = c
         /\ found' = IF c.res = 1 THEN found \cup {row} ELSE found
    /\ row' = row + 1
    /\ UNCHANGED <<sizes, free0>>

Next == ScanRow

Spec == Init /\ [][Next]_fvars

-----------------------------------------------------------------------------
\* Reference: the first-fit selection of rows 1..n of sz into space fr is
\* the one set S in which a row is taken exactly when it fits into what the
\* rows of S before it leave free.
SizeOf(sz, S) == MapThenSumSet(LAMBDA i : sz[i], S)

FirstFit(sz, n, fr) ==
    CHOOSE S \in SUBSET (1..n) :
        \A i \in 1..n : (i \in S) <=> sz[i] <= fr - SizeOf(sz, {k \in S : k < i})

TypeOK ==
    /\ sizes \in Inputs
    /\ row \in 1..Len(sizes) + 1
    /\ cnt.free \in 0..MaxFree /\ cnt.res \in {0, 1}
    /\ found \subseteq 1..Len(sizes)

\* After FITS has run on rows 1..row-1, the rows kept are the first-fit
\* selection of those rows, *free has dropped by exactly their sizes (so
\* the unsigned subtraction never wraps), *num_found counts them and
\* *total counts every row seen.
FitsIsFirstFit ==
    /\ found = FirstFit(sizes, row - 1, free0)
    /\ cnt.free = free0 - SizeOf(sizes, found)
    /\ cnt.numFound = Cardinality(found)
    /\ cnt.total = row - 1

=============================================================================
