--------------------------- MODULE LeaderShuffle ---------------------------
(***************************************************************************)
(* LeaderShuffler (pkg/nemesis/leader_shuffle.go): one of five functions   *)
(* reads from PD what it needs, request by request (pkg/util/pdutil), and  *)
(* asks for one operator on the region of regionKey.  PD is external: it   *)
(* carries operators out or drops them, and stores and leaders change      *)
(* between the requests.                                                   *)
(***************************************************************************)
EXTENDS Integers, Sequences, SequencesExt, FiniteSets, FiniteSetsExt

CONSTANTS
  Stores,
  Replicas,     \* peers of a region
  MaxRegions,   \* bound: how many regions splits make
  MaxDown       \* bound: how many stores are not up at a time

ASSUME StoresAssumption == IsFiniteSet(Stores) /\ Replicas \in 1 .. Cardinality(Stores)

VARIABLES
  regions,   \* in key order: the stores of its peers, and its leader's
  atKey,     \* the region of regionKey
  online,    \* the stores PD calls Up
  func,      \* the shuffle function that runs, "" for none
  read,      \* what it has read so far
  narrowed   \* history: an operator of the last resort was carried out

shuffleVars == <<regions, atKey, online, func, read, narrowed>>

NoStore == 0
Region(peers, leader) == [peers |-> peers, leader |-> leader]
NothingRead == [stores |-> {}, region |-> Region({}, NoStore)]

ShuffleInit ==
  /\ \E P \in kSubset(Replicas, Stores) : \E l \in P : regions = <<Region(P, l)>>
  /\ atKey = 1 /\ online = Stores
  /\ func = "" /\ read = NothingRead /\ narrowed = FALSE

(* PD and the stores. *)
LeaderMoves(i) ==
  /\ \E l \in regions[i].peers \cup {NoStore} : regions' = [regions EXCEPT ![i].leader = l]
  /\ UNCHANGED <<atKey, online, func, read, narrowed>>

StoreTurns(x) ==
  /\ online' = IF x \in online THEN online \ {x} ELSE online \cup {x}
  /\ Cardinality(Stores \ online') <= MaxDown
  /\ UNCHANGED <<regions, atKey, func, read, narrowed>>

(* A function is picked; its first request is for the stores or the region *)
(* (of which merging and splitting use nothing that can change).           *)
ShuffleLeader(f) ==
  /\ func = ""
  /\ func' = f
  /\ read' = CASE f = "transferRegion" -> [NothingRead EXCEPT !.stores = online]
               [] f \in {"mergeRegion", "splitRegion"} -> NothingRead
               [] OTHER -> [NothingRead EXCEPT !.region = regions[atKey]]
  /\ UNCHANGED <<regions, atKey, online, narrowed>>

(* The function is over: with an operator carried out, or without. *)
Operators(new, key) ==
  /\ regions' = new /\ atKey' = key
  /\ func' = "" /\ read' = NothingRead
  /\ UNCHANGED online

NoOperator == func # "" /\ Operators(regions, atKey) /\ UNCHANGED narrowed

(* Where the leader is when it is not told to be anywhere. *)
Moved(i, target) ==
  {[regions EXCEPT ![i] = Region(target, l)] : l \in target}

transferLeader ==
  /\ func = "transferLeader" /\ read.region.leader # NoStore
  /\ \E to \in read.region.peers \ {read.region.leader} :
       /\ to \in regions[atKey].peers
       /\ Operators([regions EXCEPT ![atKey].leader = to], atKey)
  /\ UNCHANGED narrowed

(* Mutant: the check for enough stores is missing. *)
transferToFew ==
  /\ func = "transferRegion"
  /\ LET region == regions[atKey]
         rest == read.stores \ {region.leader}
         n == Min({Cardinality(rest), Cardinality(region.peers)})
     IN /\ region.leader # NoStore /\ n > 0
        /\ \E target \in kSubset(n, rest) :
             \E new \in Moved(atKey, target) : Operators(new, atKey)
  /\ UNCHANGED narrowed

(* As many stores that are up as the region has peers, its leader's not    *)
(* among them.                                                             *)
transferRegion ==
  /\ func = "transferRegion"
  /\ LET region == regions[atKey]
         rest == read.stores \ {region.leader}
     IN /\ region.leader # NoStore
        /\ Cardinality(rest) >= Cardinality(region.peers)
        /\ \E target \in kSubset(Cardinality(region.peers), rest) :
             \E new \in Moved(atKey, target) : Operators(new, atKey)
  /\ UNCHANGED narrowed

(* A region that is not on the leader's store gets a peer there in place   *)
(* of one of its own.  When every region is on it, any region is moved to  *)
(* a single other store.                                                   *)
transferOtherRegionToLeader ==
  /\ func = "transferOtherRegionToLeader" /\ read.region.leader # NoStore
  /\ LET store == read.region.leader
         other == {i \in DOMAIN regions : store \notin regions[i].peers}
     IN \/ /\ other # {}
           /\ \E i \in other : \E out \in regions[i].peers :
                \E new \in Moved(i, (regions[i].peers \ {out}) \cup {store}) :
                  Operators(new, atKey)
           /\ UNCHANGED narrowed
        \/ /\ other = {}
           /\ \E i \in DOMAIN regions, to \in online \ {store} :
                \E new \in Moved(i, {to}) : Operators(new, atKey)
           /\ narrowed' = TRUE

(* With a neighbour, in either direction; PD gives the merged region the   *)
(* peers of the target.                                                    *)
mergeRegion ==
  /\ func = "mergeRegion" /\ Len(regions) > 1
  /\ \E sibling \in {atKey - 1, atKey + 1} \cap DOMAIN regions :
       \E source \in {atKey, sibling} :
         Operators(RemoveAt(regions, source), Min({atKey, sibling}))
  /\ UNCHANGED narrowed

splitRegion ==
  /\ func = "splitRegion" /\ Len(regions) < MaxRegions
  /\ \E key \in {atKey, atKey + 1} : Operators(InsertAt(regions, atKey, regions[atKey]), key)
  /\ UNCHANGED narrowed

ShuffleFuncs ==
  {"transferLeader", "transferRegion", "transferOtherRegionToLeader", "mergeRegion",
   "splitRegion"}

ShuffleNext ==
  \/ \E i \in DOMAIN regions : LeaderMoves(i)
  \/ \E x \in Stores : StoreTurns(x)
  \/ \E f \in ShuffleFuncs : ShuffleLeader(f)
  \/ transferLeader \/ transferRegion \/ transferOtherRegionToLeader
  \/ mergeRegion \/ splitRegion \/ NoOperator

ShuffleSpec == ShuffleInit /\ [][ShuffleNext]_shuffleVars
-----------------------------------------------------------------------------
(* However stores and leaders change between its requests, the shuffler    *)
(* moves peers and does not lose any: every region keeps its Replicas      *)
(* peers, until no region was off the leader's store and transferOther-    *)
(* RegionToLeader moved one to a single store.                             *)
ReplicasKept ==
  narrowed \/ \A i \in DOMAIN regions : Cardinality(regions[i].peers) = Replicas
=============================================================================
