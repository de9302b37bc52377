----------------------------- MODULE Partition ------------------------------
(***************************************************************************)
(* Setting up the decomposition: PartitionSpace, createSubdomainData, and  *)
(* the range sets of the generators.  All ranks run the same sequence of   *)
(* collective calls, each on the communicator of one space; what a rank    *)
(* contributes can depend on the results of its earlier calls.             *)
(*                                                                         *)
(* An allReduce returns when all ranks of the communicator have called it, *)
(* a scan when the ranks before the caller have.  A rank that has returned *)
(* goes on, so different ranks are in different calls.                     *)
(*                                                                         *)
(* generateDecomp has one rank along P and Q.                              *)
(***************************************************************************)
EXTENDS PhaseSpace, Sequences

CONSTANTS
  NumProcs,   \* ranks by dimension: P, Q, npx, npy, npz
  Problems,   \* global sizes of the sets Group, Direction, ZoneI, ZoneJ, ZoneK
  NumMixed,   \* mixed elements of the chunks of space R of each rank
  SetFlags    \* signs (id, jd, kd) of each direction set

Rank == 0 .. Volume(NumProcs) - 1

ASSUME PartitionAssumption ==
  /\ NumProcs \in [Axis5 -> Nat \ {0}]
  /\ NumProcs[0] = 1 /\ NumProcs[1] = 1
  /\ Problems \subseteq [{"Group", "Direction", "ZoneI", "ZoneJ", "ZoneK"} -> Nat]
  /\ NumMixed \in [Rank -> [Chunks("R") -> Nat]]
  /\ SetFlags \in [Chunks("Q") -> [0 .. 2 -> {-1, 1}]]

VARIABLES
  problem,  \* input_vars
  pc,       \* the collective call each rank is in; 0 when aborted
  global,   \* results of the allReduces on counts
  lower,    \* results of the scans, less the rank's own count
  owner,    \* GlobalSdomId2Rank
  localId   \* GlobalSdomId2SdomId

vars == <<problem, pc, global, lower, owner, localId>>

-----------------------------------------------------------------------------
(* Communicators.                                                          *)

(* toIndices of the rank in m_proc_layout.                                 *)
CoordOf(r) == ToIndices(NumProcs, r)

Keep(axes, r) == Linearize(NumProcs, [a \in Axis5 |-> IF a \in axes THEN CoordOf(r)[a] ELSE 0])

(* Ranks with the same color are in one communicator, ordered by key.  The *)
(* communicator of NULL is a default one, MPI_COMM_WORLD.                  *)
Color(space, r) == IF space = "NULL" THEN 0 ELSE Keep(Axis5 \ AxesOf[space], r)

Key(space, r) == IF space = "NULL" THEN r ELSE Keep(AxesOf[space], r)

(* What split gave each rank for each space.                               *)
Communicators ==
  [space \in Space |-> [r \in Rank |-> {q \in Rank : Color(space, q) = Color(space, r)}]]

Members(space, r) == Communicators[space][r]

-----------------------------------------------------------------------------
(* What the ranks count.                                                   *)

(* Mutant: the sets of zones in x and y are made over each other's space.  *)
SetSpace_Swapped == [Group |-> "P", Direction |-> "Q", ZoneI |-> "RY", ZoneJ |-> "RX",
                     ZoneK |-> "RZ", MixElem |-> "R"]

SetSpace == [Group |-> "P", Direction |-> "Q", ZoneI |-> "RX", ZoneJ |-> "RY",
             ZoneK |-> "RZ", MixElem |-> "R"]

Counted == Space \cup {"SdomId"} \cup DOMAIN SetSpace

SpaceOf(x) == IF x \in Space THEN x ELSE IF x = "SdomId" THEN "PQR" ELSE SetSpace[x]

(* The elements of a set in one chunk, as the generators divide them.      *)
ChunkSize(r, set, c) ==
  IF set = "MixElem" THEN NumMixed[r][c] ELSE problem[set] \div global[r][SetSpace[set]]

ChunkSum(r, set, chunks) == SumFunction([c \in chunks |-> ChunkSize(r, set, c)])

(* Mutant: only the first chunk of a set is counted.                       *)
LocalTotal_FirstChunk(r, x) ==
  IF x \in DOMAIN SetSpace THEN ChunkSize(r, x, 0) ELSE NumSubdomains(SpaceOf(x))

(* m_local_num_sdom, the size of Set/SdomId, total_local of a range set.   *)
LocalTotal(r, x) ==
  IF x \in DOMAIN SetSpace THEN ChunkSum(r, x, Chunks(SetSpace[x]))
  ELSE NumSubdomains(SpaceOf(x))

RankSum(ranks, x) == SumFunction([q \in ranks |-> LocalTotal(q, x)])

(* The collective calls of a rank.                                         *)
Reduce(x) == [op |-> "reduce", of |-> x]

Prefix(x) == [op |-> "scan", of |-> x]

Program == <<
  Reduce("P"), Prefix("P"), Reduce("Q"), Prefix("Q"), Reduce("RX"), Prefix("RX"),
  Reduce("RY"), Prefix("RY"), Reduce("RZ"), Prefix("RZ"), Reduce("R"), Prefix("R"),
  Reduce("PR"), Prefix("PR"), Reduce("PQR"), Prefix("PQR"), Reduce("NULL"), Prefix("NULL"),
  Reduce("SdomId"), Prefix("SdomId"),
  [op |-> "owner", of |-> "PQR"], [op |-> "local", of |-> "PQR"],
  Reduce("Group"), Prefix("Group"), Reduce("Direction"), Prefix("Direction"),
  Reduce("ZoneI"), Prefix("ZoneI"), Reduce("ZoneJ"), Prefix("ZoneJ"),
  Reduce("ZoneK"), Prefix("ZoneK"), Reduce("MixElem"), Prefix("MixElem") >>

(* The place in the program behind a call.                                 *)
After(op, x) == (CHOOSE n \in DOMAIN Program : Program[n] = [op |-> op, of |-> x]) + 1

-----------------------------------------------------------------------------
(* Subdomain ids.                                                          *)

BaseSpace == [a \in Axis5 |-> <<"P", "Q", "RX", "RY", "RZ">>[a + 1]]

GlobalLayout(r) == [a \in Axis5 |-> global[r][BaseSpace[a]]]

(* Mutant: every rank counts its subdomains from 0.                        *)
CoordToGlobalCoord_Local(r, coord) == coord

CoordToGlobalCoord(r, coord) == [a \in Axis5 |-> coord[a] + lower[r][BaseSpace[a]]]

CoordToGlobalSdomId(r, coord) == Linearize(GlobalLayout(r), coord)

GlobalId(r, s) == CoordToGlobalSdomId(r, CoordToGlobalCoord(r, SdomIdToCoord(s)))

(* Mutant: the boundary is that of the rank.                               *)
Neighbour_OfRank(r, s, d, step) ==
  LET c == CoordToGlobalCoord(r, SdomIdToCoord(s))
      moved == [c EXCEPT ![d + 2] = @ + step * SetFlags[c[1]][d]]
  IN  IF moved[d + 2] < 0 \/ moved[d + 2] >= NumLocal[d + 2]
        THEN -1
        ELSE CoordToGlobalSdomId(r, moved)

(* Fields upwind and downwind: the neighbour a step of sign dir away.      *)
Neighbour(r, s, d, step) ==
  LET c == CoordToGlobalCoord(r, SdomIdToCoord(s))
      moved == [c EXCEPT ![d + 2] = @ + step * SetFlags[c[1]][d]]
  IN  IF moved[d + 2] < 0 \/ moved[d + 2] >= global[r][BaseSpace[d + 2]]
        THEN -1
        ELSE CoordToGlobalSdomId(r, moved)

-----------------------------------------------------------------------------
(* The collective calls.                                                   *)

Init ==
  /\ problem \in Problems
  /\ pc = [r \in Rank |-> 1]
  /\ global = [r \in Rank |-> [x \in Counted |-> 0]]
  /\ lower = [r \in Rank |-> [x \in Counted |-> 0]]
  /\ owner = [r \in Rank |-> << >>]
  /\ localId = [r \in Rank |-> << >>]

Running(r) == pc[r] \in DOMAIN Program

Call(r) == Program[pc[r]]

Comm(r) == Members(SpaceOf(Call(r).of), r)

Advance(r) == pc' = [pc EXCEPT ![r] = @ + 1]

(* Mutant: no assertion.                                                   *)
Divided_Unchecked(r) == TRUE

(* "Number of zones in X must evenly divide into the number of             *)
(* subdomains": asserted before the set is made.                           *)
Divided(r) ==
  \A set \in {"ZoneI", "ZoneJ", "ZoneK"} :
    Call(r) = [op |-> "reduce", of |-> set] =>
      (problem[set] \div global[r][SetSpace[set]]) * global[r][SetSpace[set]] = problem[set]

(* MPI_Abort ends all ranks.                                               *)
Abort(r) ==
  /\ Running(r)
  /\ ~ Divided(r)
  /\ pc' = [q \in Rank |-> 0]
  /\ UNCHANGED <<problem, global, lower, owner, localId>>

(* All ranks of the communicator are in this call or beyond it.            *)
Entered(r, ranks) == \A q \in ranks : pc[q] >= pc[r]

AllReduce(r) ==
  /\ Running(r)
  /\ Call(r).op = "reduce"
  /\ Divided(r)
  /\ Entered(r, Comm(r))
  /\ LET x == Call(r).of
     IN  global' = [global EXCEPT ![r][x] = RankSum(Comm(r), x)]
  /\ Advance(r)
  /\ UNCHANGED <<problem, lower, owner, localId>>

(* The sum up to and including the rank, less its own count.               *)
Scan(r) ==
  /\ Running(r)
  /\ Call(r).op = "scan"
  /\ LET x == Call(r).of
         before == {q \in Comm(r) : Key(SpaceOf(x), q) < Key(SpaceOf(x), r)}
         upto == before \cup {r}
     IN  /\ Entered(r, before)
         /\ lower' = [lower EXCEPT ![r][x] = RankSum(upto, x) - LocalTotal(r, x)]
  /\ Advance(r)
  /\ UNCHANGED <<problem, global, owner, localId>>

(* The tables start with zeros, and every rank writes at the global ids of *)
(* its subdomains; where it computes an id twice the later write counts.   *)
Writes ==
  {[id |-> GlobalId(q, s), rank |-> q, sdom |-> s] : q \in Rank, s \in LocalSdom}

(* The tables of all ranks, added up.                                      *)
Summed(r, all, field) ==
  LET last(id) == {w \in all : /\ w.id = id
                               /\ \A v \in all : v.id = id /\ v.rank = w.rank
                                                   => v.sdom <= w.sdom}
  IN  [id \in 0 .. global[r]["SdomId"] - 1 |-> SumFunction([w \in last(id) |-> w[field]])]

ReduceOwner(r) ==
  /\ Running(r)
  /\ Call(r).op = "owner"
  /\ Entered(r, Rank)
  /\ \E all \in {Writes} : owner' = [owner EXCEPT ![r] = Summed(r, all, "rank")]
  /\ Advance(r)
  /\ UNCHANGED <<problem, global, lower, localId>>

ReduceLocalId(r) ==
  /\ Running(r)
  /\ Call(r).op = "local"
  /\ Entered(r, Rank)
  /\ \E all \in {Writes} : localId' = [localId EXCEPT ![r] = Summed(r, all, "sdom")]
  /\ Advance(r)
  /\ UNCHANGED <<problem, global, lower, owner>>

Finished(r) == pc[r] = Len(Program) + 1

Done == (\A r \in Rank : Finished(r) \/ pc[r] = 0) /\ UNCHANGED vars

Next ==
  \/ \E r \in Rank :
       Abort(r) \/ AllReduce(r) \/ Scan(r) \/ ReduceOwner(r) \/ ReduceLocalId(r)
  \/ Done

(* A rank that can return from its call does.                              *)
Spec == Init /\ [][Next]_vars /\ WF_pc(Next)

-----------------------------------------------------------------------------
(* Properties.  What a rank has set stays, so that each is stated of a     *)
(* rank right behind the call it is about.                                 *)

(* Once the tables are summed, every rank finds every subdomain at its     *)
(* owner and under its owner's local id: the ids that different ranks      *)
(* compute from their own offsets are all different.                       *)
TablesExact ==
  \A r \in Rank : pc[r] = After("local", "PQR") =>
    /\ DOMAIN owner[r] = 0 .. Cardinality(Rank) * NumSubdomains("PQR") - 1
    /\ \A q \in Rank, s \in LocalSdom :
         /\ owner[r][GlobalId(q, s)] = q
         /\ localId[r][GlobalId(q, s)] = s

(* What the ranks have put together call by call is the graph the sweeps   *)
(* are specified on: SweepGrid states it in closed form.                   *)
Grid == INSTANCE SweepGrid WITH
  NoSdom <- -1,
  NumSets <- NumLocal[0] * NumLocal[1],
  NumRanks <- [d \in 0 .. 2 |-> NumProcs[d + 2]],
  NumZoneSets <- [d \in 0 .. 2 |-> NumLocal[d + 2]],
  SweepDir <- [set \in 0 .. NumLocal[0] * NumLocal[1] - 1 |-> SetFlags[set % NumLocal[1]]]

BuildsSweepGrid ==
  \A r \in Rank : pc[r] = After("local", "PQR") =>
    /\ owner[r] = Grid!ownerOf
    /\ \A s \in LocalSdom, d \in 0 .. 2 :
         /\ Grid!upwindOf[GlobalId(r, s)][d] = Neighbour(r, s, d, -1)
         /\ Grid!downwindOf[GlobalId(r, s)][d] = Neighbour(r, s, d, 1)

(* m_chunk_to_lower                                                        *)
ChunkLower(r, set, c) == lower[r][set] + ChunkSum(r, set, 0 .. c - 1)

(* The ranks of a set's communicator hold consecutive ranges of it: each   *)
(* element is in one chunk of one of them, in the order of ranks and       *)
(* chunks.  This goes for the uneven mixture table too.                    *)
SetsTile ==
  \A set \in DOMAIN SetSpace, r \in Rank : pc[r] = After("scan", set) =>
    \A x \in 0 .. global[r][set] - 1 :
      LET ranks == {q \in Members(SetSpace[set], r) : pc[q] >= After("scan", set)}
          holders == {qc \in ranks \X Chunks(SetSpace[set]) :
                        /\ ChunkLower(qc[1], set, qc[2]) <= x
                        /\ x < ChunkLower(qc[1], set, qc[2]) + ChunkSize(qc[1], set, qc[2])}
      IN  /\ Cardinality(holders) <= 1
          /\ ranks = Members(SetSpace[set], r) => Cardinality(holders) = 1

(* The zones of a subdomain lie where its coordinate in the subdomain      *)
(* graph says, so that downwind in the graph is the next zone of the mesh; *)
(* with as many zones as asked for.                                        *)
ZonesFollowGrid ==
  \A d \in 0 .. 2, r \in Rank :
    LET set == <<"ZoneI", "ZoneJ", "ZoneK">>[d + 1]
    IN  pc[r] = After("scan", set) =>
          /\ global[r][set] = problem[set]
          /\ \A s \in LocalSdom :
               LET c == ChunkOf(SetSpace[set], s)
               IN  ChunkLower(r, set, c) =
                     CoordToGlobalCoord(r, SdomIdToCoord(s))[d + 2] * ChunkSize(r, set, c)

(* Every rank gets out of every collective call, or the run is aborted     *)
(* because the zones cannot be dealt out evenly.                           *)
Divisible == \A d \in 0 .. 2 :
  problem[<<"ZoneI", "ZoneJ", "ZoneK">>[d + 1]] % (NumProcs[d + 2] * NumLocal[d + 2]) = 0

AllSetUp ==
  <>(IF Divisible THEN \A r \in Rank : Finished(r) ELSE \A r \in Rank : pc[r] = 0)

=============================================================================
