------------------------------- MODULE QSort --------------------------------
(***************************************************************************)
(* co_qsort of src/src/qsort.c: smoothsort.  The array a is a function on  *)
(* 0..n-1 and is sorted by key[a[i]]; cmp(x, y) is key[x] - key[y].  p is  *)
(* the bit set of the sizes of the heaps, shifted by pshift; sizes are the *)
(* Leonardo numbers.                                                       *)
(***************************************************************************)
EXTENDS Integers, Sequences, FiniteSets

lp[i \in Nat] == IF i <= 1 THEN 1 ELSE lp[i - 1] + lp[i - 2] + 1

RECURSIVE pntz(_)
pntz(p) == IF ((p - 1) \div 2) % 2 = 1 THEN 1 ELSE 1 + pntz((p + 1) \div 2)

\* Every element of the path moves to the place before, the first to the last.
cycle(a, path) ==
  [i \in DOMAIN a |->
     IF \E j \in DOMAIN path : path[j] = i
     THEN LET j == CHOOSE j \in DOMAIN path : path[j] = i
          IN  a[path[(j % Len(path)) + 1]]
     ELSE a[i]]

\* From the root of a heap down to where x belongs.
RECURSIVE SiftPath(_, _, _, _, _)
SiftPath(a, key, x, head, pshift) ==
  LET rt == head - 1
      lf == head - 1 - lp[pshift - 2]
  IN  IF pshift <= 1 \/ (key[x] >= key[a[lf]] /\ key[x] >= key[a[rt]]) THEN <<head>>
      ELSE <<head>> \o IF key[a[lf]] >= key[a[rt]]
                       THEN SiftPath(a, key, x, lf, pshift - 1)
                       ELSE SiftPath(a, key, x, rt, pshift - 2)

sift(a, key, head, pshift) == cycle(a, SiftPath(a, key, a[head], head, pshift))

\* From root to root of the heaps to the left, and there down.
RECURSIVE Climb(_, _, _, _)
Climb(a, key, x, at) ==
  LET stepson == at.head - lp[at.pshift]
      child(c) == key[a[c]] >= key[a[stepson]]
      t == pntz(at.p)
  IN  IF \/ at.p = 1 \/ key[a[stepson]] <= key[x]
         \/ /\ ~at.trusty /\ at.pshift > 1
            /\ child(at.head - 1) \/ child(at.head - 1 - lp[at.pshift - 2])
      THEN at
      ELSE Climb(a, key, x,
                 [path |-> Append(at.path, stepson), head |-> stepson,
                  p |-> at.p \div 2^t, pshift |-> at.pshift + t, trusty |-> FALSE])

trinkle(a, key, head, p, pshift, trusty) ==
  LET at == Climb(a, key, a[head], [path |-> <<head>>, head |-> head, p |-> p, pshift |-> pshift,
                                    trusty |-> trusty])
  IN  IF at.trusty THEN a ELSE sift(cycle(a, at.path), key, at.head, at.pshift)

\* The first loop makes heaps ...
RECURSIVE MakeHeaps(_, _, _, _, _)
MakeHeaps(a, key, head, p, pshift) ==
  LET high == Cardinality(DOMAIN a) - 1
      b == IF p % 4 # 3 /\ lp[pshift - 1] >= high - head
           THEN trinkle(a, key, head, p, pshift, FALSE) ELSE sift(a, key, head, pshift)
      up == IF pshift = 1 THEN 1 ELSE pshift - 1
  IN  IF head >= high
      THEN [a |-> trinkle(a, key, head, p, pshift, FALSE), head |-> head, p |-> p, pshift |-> pshift]
      ELSE IF p % 4 = 3
      THEN MakeHeaps(b, key, head + 1, 2 * (p \div 8) + 1, pshift + 2)
      ELSE MakeHeaps(b, key, head + 1, p * 2^up + 1, IF pshift = 1 THEN 0 ELSE 1)

\* ... the second takes them apart from the right.  p ends in a 1 bit: shifted by
\* two, with its three low bits inverted and shifted back, it ends in 1 again.
RECURSIVE TakeApart(_, _)
TakeApart(key, s) ==
  LET t == pntz(s.p)
      p1 == ((s.p - 1) * 4 + 3) \div 2
      k == s.pshift - 2
      left == trinkle(s.a, key, s.head - lp[k] - 1, p1, k + 1, TRUE)
      p2 == p1 * 2 + 1
  IN  IF s.pshift = 1 /\ s.p = 1 THEN s.a
      ELSE IF s.pshift <= 1
      THEN TakeApart(key, [s EXCEPT !.p = s.p \div 2^t, !.pshift = s.pshift + t, !.head = s.head - 1])
      ELSE TakeApart(key, [a |-> trinkle(left, key, s.head - 1, p2, k, TRUE),
                           p |-> p2, pshift |-> k, head |-> s.head - 1])

co_qsort(a, key) ==
  IF DOMAIN a = {} THEN a ELSE TakeApart(key, MakeHeaps(a, key, 0, 1, 1))
=============================================================================
