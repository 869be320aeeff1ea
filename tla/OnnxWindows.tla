------------------------------- MODULE OnnxWindows -------------------------------
(***************************************************************************)
(* What the operators over spatial dimensions mean: sums over the places   *)
(* of a kernel on the padded input, or over what the input is scattered    *)
(* to, and interpolation by distance.                                      *)
(***************************************************************************)
EXTENDS OnnxMatrices

\* All coordinates of the given sizes, each counted from 0.
Box(sizes) ==
  {c \in [DOMAIN sizes -> 0 .. Max({0} \cup ToSet(sizes))] : \A d \in DOMAIN sizes : c[d] < sizes[d]}
Spatial(x) == SubSeq(x.shape, 3, Rank(x))

\* x at a place of a channel, or what is beyond its edges.
OrElse(x, n, c, place, beyond) ==
  IF \A d \in DOMAIN place : place[d] >= 0 /\ place[d] < Spatial(x)[d]
    THEN At(x, <<n, c>> \o place) ELSE beyond

\* Padding before and after dimension d, which keeps the size where a SAME mode asks for it:
\* the output counts one element for every stride begun.
MeantPads(job, ks, d) ==
  LET in == job.x[1].shape[d + 2]
      n == Len(ks)
      out == CeilDiv(in, job.strides[d])
      all == Max({0, (out - 1) * job.strides[d] + job.dils[d] * (ks[d] - 1) + 1 - in})
      small == all \div 2
  IN CASE job.auto = "VALID"      -> <<0, 0>>
       [] job.auto = "SAME_UPPER" -> <<small, all - small>>
       [] job.auto = "SAME_LOWER" -> <<all - small, small>>
       [] OTHER -> <<job.pads[d], job.pads[d + n]>>

\* Positions of the window that lie in the padded input.
WindowCount(job, ks, d) ==
  LET room == job.x[1].shape[d + 2] + MeantPads(job, ks, d)[1] + MeantPads(job, ks, d)[2]
      span == job.dils[d] * (ks[d] - 1)
  IN Cardinality({i \in 0 .. room : i * job.strides[d] + span < room})

WindowShape(job, ks) == [d \in DOMAIN ks |-> WindowCount(job, ks, d)]

\* The place that tap t of the window at p covers.
Covered(job, ks, p, t) ==
  [d \in DOMAIN ks |-> p[d] * job.strides[d] + t[d] * job.dils[d] - MeantPads(job, ks, d)[1]]

\* Less the zero points x0 and w0; padding holds the zero point.
MeantConvolution(job, dtype, x0, w0, bias) ==
  LET x == job.x[1]
      w == job.x[2]
      ks == Spatial(w)
      per == x.shape[2] \div job.group
      Element(c) ==
        LET group == c[2] \div (w.shape[1] \div job.group)
            Taps == (0 .. per - 1) \X Box(ks)
        IN MapThenSumSet(LAMBDA t :
             (OrElse(x, c[1], group * per + t[1], Covered(job, ks, After(c, 2), t[2]), x0) - x0)
               * (At(w, <<c[2], t[1]>> \o t[2]) - w0), Taps)
             + (IF bias = <<>> THEN 0 ELSE bias[1].data[c[2]])
  IN IF 0 \in ToSet(WindowShape(job, ks)) THEN Refused
     ELSE Make(dtype, <<x.shape[1], w.shape[1]>> \o WindowShape(job, ks), Element)

MeantConv(job) == MeantConvolution(job, "FLOAT", 0, 0, SubSeq(job.x, 3, Len(job.x)))
MeantConvInteger(job) ==
  LET zero(i) == IF Len(job.x) < i THEN 0 ELSE job.x[i].data[0] IN
  MeantConvolution(job, "INT32", zero(3), zero(4), <<>>)

\* Every input element, times the kernel, is added where it is scattered to.
MeantConvTranspose(job) ==
  LET x == job.x[1]
      w == job.x[2]
      ks == Spatial(w)
      n == Len(ks)
      perIn == x.shape[2] \div job.group
      out == [d \in 1 .. n |-> (Spatial(x)[d] - 1) * job.strides[d] + job.dils[d] * (ks[d] - 1) + 1
                                 + job.outpad[d] - job.pads[d] - job.pads[d + n]]
      Target(p, t) == [d \in 1 .. n |-> p[d] * job.strides[d] + t[d] * job.dils[d] - job.pads[d]]
      Element(c) ==
        LET group == c[2] \div w.shape[2]
            Hits == {h \in Box(Spatial(x)) \X Box(ks) : Target(h[1], h[2]) = After(c, 2)}
        IN MapThenSumSet(LAMBDA h :
             MapThenSumSet(LAMBDA i : At(x, <<c[1], i>> \o h[1]) * At(w, <<i, c[2] % w.shape[2]>> \o h[2]),
                           group * perIn .. (group + 1) * perIn - 1), Hits)
             + (IF Len(job.x) < 3 THEN 0 ELSE job.x[3].data[c[2]])
  IN Make("FLOAT", <<x.shape[1], w.shape[2] * job.group>> \o out, Element)

\* The largest element of the window, or the mean of them.
MeantPool(job) ==
  LET x == job.x[1]
      global == job.kind = "GlobalAverage"
      ks == IF global THEN Spatial(x) ELSE job.ks
      Element(c) ==
        LET places == {Covered(job, ks, After(c, 2), t) : t \in Box(ks)}
            inside == places \cap Box(Spatial(x))
            V(p) == At(x, <<c[1], c[2]>> \o p)
        IN IF job.kind = "Max" THEN Max({V(p) : p \in inside})
           ELSE (MapThenSumSet(V, inside) * Unit) \div Cardinality(IF job.includePad THEN places ELSE inside)
  IN Make("FLOAT", <<x.shape[1], x.shape[2]>> \o (IF global THEN [d \in DOMAIN ks |-> 1] ELSE WindowShape(job, ks)),
          Element)

----------------------------------------------------------------------------
(* Interpolation.  A position is num / den, weights fall with distance.    *)

\* Keys' function of a distance of d / q, in parts of 4 * q^3; a counts quarters.
Keys(a, d, q) ==
  CASE d <= q -> (a + 8) * d * d * d - (a + 12) * d * d * q + 4 * q * q * q
    [] d > q /\ d < 2 * q -> a * (d * d * d - 5 * d * d * q + 8 * d * q * q - 4 * q * q * q)
    [] OTHER -> 0

\* Where output element o lies among the elements of the input.
MeantSource(coord, o, scale, in, out) ==
  CASE coord = "asymmetric" -> <<o * scale[2], scale[1]>>
    [] coord = "align_corners" -> IF out = 1 THEN <<0, 1>> ELSE <<o * (in - 1), out - 1>>
    [] coord \notin {"asymmetric", "align_corners"} ->
         \* the middle of an element is half of one away from its edge
         IF coord = "pytorch_half_pixel" /\ out = 1 THEN <<0, 1>>
         ELSE <<scale[2] * (2 * o + 1) - scale[1], 2 * scale[1]>>

\* The element that a position rounds to: the closest, or the closest on one side.
MeantNearest(mode, v) ==
  LET Off(n) == n * v[2] - v[1]
      all == -20 .. 20
      Best(S) == {n \in S : \A k \in S : Magnitude(Off(n)) <= Magnitude(Off(k))}
  IN CASE mode = "floor" -> Max({n \in all : Off(n) <= 0})
       [] mode = "ceil"  -> Min({n \in all : Off(n) >= 0})
       [] mode = "round_prefer_floor" -> Min(Best(all))
       [] mode = "round_prefer_ceil"  -> Max(Best(all))

MeantResize(job) ==
  LET x == job.x[1]
      S == 3 .. Rank(x)
      scale == [d \in S |-> IF job.scales # <<>> THEN job.scales[d] ELSE <<job.sizes[d], x.shape[d]>>]
      out == [d \in 1 .. Rank(x) |-> IF d \notin S THEN x.shape[d]
                                     ELSE Max({n \in 0 .. 20 : n * scale[d][2] <= x.shape[d] * scale[d][1]})]
      Edge(n, d) == Max({0, Min({n, x.shape[d] - 1})})
      Weight(n, v) ==
        LET off == Magnitude(n * v[2] - v[1]) IN
        CASE job.mode = "linear" -> Max({0, v[2] - off})
          [] job.mode = "cubic"  -> Keys(job.cubic, off, v[2])
      Parts(v) == IF job.mode = "linear" THEN v[2] ELSE 4 * v[2] * v[2] * v[2]
      Element(c) ==
        LET v == [d \in S |-> MeantSource(job.coord, c[d], scale[d], x.shape[d], out[d])]
            near == {n \in [S -> -4 .. 9] : \A d \in S : Magnitude(n[d] * v[d][2] - v[d][1]) < 2 * v[d][2]}
            Value(n) == At(x, [d \in 1 .. Rank(x) |-> IF d \in S THEN Edge(n[d], d) ELSE c[d]])
            Times(f) == FoldFunction(LAMBDA a, b : a * b, 1, f)
        IN IF job.mode = "nearest" THEN Value([d \in S |-> MeantNearest(job.nearest, v[d])])
           ELSE (MapThenSumSet(LAMBDA n : Times([d \in S |-> Weight(n[d], v[d])]) * Value(n), near) * Unit)
                  \div Times([d \in S |-> Parts(v[d])])
  IN IF \E d \in S : out[d] = 0 THEN Refused
     ELSE IF job.scales # <<>> /\ (job.scales[1] # <<1, 1>> \/ job.scales[2] # <<1, 1>>) THEN Refused
     ELSE Make("FLOAT", out, Element)

\* The plane from -1 to 1 spans the middles of the corners, or their edges.
MeantGridSample(job) ==
  LET x == job.x[1]
      grid == job.x[2]
      Position(v, len) == IF job.align THEN (v + 4) * (len - 1) ELSE (v + 4) * len - 4
      Element(c) ==
        LET f(d) == Position(At(grid, <<c[1], c[3], c[4], 4 - d>>), x.shape[d])
            near == {n \in (-20 .. 20) \X (-20 .. 20) :
                       Magnitude(n[1] * 8 - f(3)) < 8 /\ Magnitude(n[2] * 8 - f(4)) < 8}
            Edge(n) == [d \in 1 .. 2 |-> Max({0, Min({n[d], x.shape[d + 2] - 1})})]
            Value(n) == OrElse(x, c[1], c[2], IF job.border THEN Edge(n) ELSE n, 0)
        IN MapThenSumSet(LAMBDA n : (8 - Magnitude(n[1] * 8 - f(3))) * (8 - Magnitude(n[2] * 8 - f(4))) * Value(n), near)
  IN Make("FLOAT", <<x.shape[1], x.shape[2], grid.shape[2], grid.shape[3]>>, Element)

=============================================================================
