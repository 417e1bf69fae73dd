------------------------- MODULE MembershipManager -------------------------
(***************************************************************************)
(* MembershipManager::Init (src/zookeeper/membership_manager.cc) run by    *)
(* every server of a cluster against one ZooKeeper ensemble, through       *)
(* ZooKeeperClient (src/zookeeper/zk_client.cc).  A server connects,       *)
(* creates the parent path, competes for positions 0 .. N-1 by creating    *)
(* the ephemeral node leader-<pos> with its address (FindMyPosition), then *)
(* reads every position's node until all are taken (RefreshAddressMap).    *)
(*                                                                         *)
(* Each ZooKeeper call (zoo_create, zoo_get, zoo_delete) is one atomic     *)
(* step of the calling server; servers interleave freely.  Any call may    *)
(* fail (connection loss, timeout), up to MaxErrors failures in all.  A    *)
(* server may crash at any point, and a server whose Init returns false    *)
(* exits; either is restarted with the same address and a new session;    *)
(* ZooKeeper removes the ephemeral nodes of a dead      *)
(* session some time later.  A server's address is the server itself; a   *)
(* node holds its creator's address and session.                          *)
(***************************************************************************)
EXTENDS Integers, FiniteSets

CONSTANTS
    Servers,       \* server processes, each with its own my_service_address
    NumPositions,  \* num_active_server_positions
    PathDepth,     \* components of membership_management_zk_path
    MaxRetries,    \* the max_retries Init passes (3)
    MaxErrors,     \* bound on failed ZooKeeper calls
    MaxCrashes     \* bound on server crashes

ASSUME NumPositions > 0 /\ PathDepth > 0

Positions == 0 .. NumPositions - 1
kPositionBackupServer == -1
NoNode == <<"none", 0>>          \* no leader-<pos> node in ZooKeeper
NoAddress == "none"              \* an empty string in address_map_
MaxRuns == MaxCrashes + MaxErrors   \* each restart follows a crash or a failed call
Session == Servers \X (0 .. MaxRuns)

VARIABLES
    zk,           \* zk[p]: the node leader-<p>, as <<address, session>>
    path_made,    \* the components of the parent path that exist
    pc,           \* server's position in Init
    idx,          \* the loop variable of the current loop (path, pos)
    retries,      \* max_retries of the current FindMyPosition/Refresh call
    my_position,  \* my_position_
    address_map,  \* address_map_
    incarnation,  \* the server's current run (its session)
    errors,       \* failed ZooKeeper calls so far
    crashes       \* crashes so far

vars == <<zk, path_made, pc, idx, retries, my_position, address_map,
          incarnation, errors, crashes>>

\* A server process that has exited, by a crash or after Init returned false.
Down == {"crashed", "failed"}

SessionAlive(node) ==
    node # NoNode /\ pc[node[1]] \notin Down /\ node[2] = incarnation[node[1]]

\* The constructor: a backup position and an empty address map.
Fresh(s) ==
    /\ pc' = [pc EXCEPT ![s] = "connect"]
    /\ idx' = [idx EXCEPT ![s] = 0]
    /\ retries' = [retries EXCEPT ![s] = MaxRetries]
    /\ my_position' = [my_position EXCEPT ![s] = kPositionBackupServer]
    /\ address_map' = [address_map EXCEPT ![s] = [p \in Positions |-> NoAddress]]

Init ==
    /\ zk = [p \in Positions |-> NoNode]
    /\ path_made = {}
    /\ pc = [s \in Servers |-> "connect"]
    /\ idx = [s \in Servers |-> 0]
    /\ retries = [s \in Servers |-> MaxRetries]
    /\ my_position = [s \in Servers |-> kPositionBackupServer]
    /\ address_map = [s \in Servers |-> [p \in Positions |-> NoAddress]]
    /\ incarnation = [s \in Servers |-> 0]
    /\ errors = 0
    /\ crashes = 0

\* A ZooKeeper call of this step fails.
Fail == errors < MaxErrors /\ errors' = errors + 1

Goto(s, label) == pc' = [pc EXCEPT ![s] = label]

\* A bug class for the retry test: `< 0` instead of `<= 0`, one retry
\* too many.
RetryOrFailLate(s, back) ==
    IF retries[s] < 0
    THEN /\ Goto(s, "failed")
         /\ UNCHANGED retries
    ELSE /\ retries' = [retries EXCEPT ![s] = @ - 1]
         /\ Goto(s, back)

\* `if (max_retries-- <= 0) return false;`: Init returns false, or the
\* loop goes on at `back` with one retry less.
RetryOrFail(s, back) ==
    IF retries[s] <= 0
    THEN /\ Goto(s, "failed")
         /\ UNCHANGED retries
    ELSE /\ retries' = [retries EXCEPT ![s] = @ - 1]
         /\ Goto(s, back)

\* Init: zk_client_.Connect(); false when no session is established.
Connect(s) ==
    /\ pc[s] = "connect"
    /\ \/ /\ Goto(s, "mkpath")
          /\ idx' = [idx EXCEPT ![s] = 1]
          /\ UNCHANGED errors
       \/ /\ Fail
          /\ Goto(s, "failed")
          /\ UNCHANGED idx
    /\ UNCHANGED <<zk, path_made, retries, my_position, address_map, incarnation, crashes>>

\* MakeZkPathIfNotExists: CreateNode of the idx-th prefix of the path;
\* CREATED and EXISTS go on, anything else makes Init return false.  The
\* last prefix done, FindMyPosition(3) starts at position 0.
MakeZkPathStep(s) ==
    /\ pc[s] = "mkpath"
    /\ \/ /\ path_made' = path_made \cup {idx[s]}
          /\ IF idx[s] = PathDepth
             THEN /\ Goto(s, "find")
                  /\ idx' = [idx EXCEPT ![s] = 0]
                  /\ retries' = [retries EXCEPT ![s] = MaxRetries]
             ELSE /\ idx' = [idx EXCEPT ![s] = @ + 1]
                  /\ UNCHANGED <<pc, retries>>
          /\ UNCHANGED errors
       \/ /\ Fail
          /\ Goto(s, "failed")
          /\ UNCHANGED <<path_made, idx, retries>>
    /\ UNCHANGED <<zk, my_position, address_map, incarnation, crashes>>

\* Having finished FindMyPosition with `position`, Init stores it in
\* my_position_ and starts RefreshAddressMap(3) at position 0.
Acquired(s, position) ==
    /\ my_position' = [my_position EXCEPT ![s] = position]
    /\ Goto(s, "refresh")
    /\ idx' = [idx EXCEPT ![s] = 0]
    /\ retries' = [retries EXCEPT ![s] = MaxRetries]

\* FindMyPosition, one pass of the loop at position idx: TryCreatingNode
\* creates the ephemeral node (CREATED: I won), or finds it there
\* (EXISTS: read it next), or fails (retry the same position).  Past the
\* last position the server is a backup.
FindCreate(s) ==
    /\ pc[s] = "find"
    /\ IF idx[s] = NumPositions
       THEN /\ Acquired(s, kPositionBackupServer)
            /\ UNCHANGED <<zk, errors>>
       ELSE \/ /\ zk[idx[s]] = NoNode
               /\ zk' = [zk EXCEPT ![idx[s]] = <<s, incarnation[s]>>]
               /\ Acquired(s, idx[s])
               /\ UNCHANGED errors
            \/ /\ zk[idx[s]] # NoNode
               /\ Goto(s, "findget")
               /\ UNCHANGED <<zk, idx, retries, my_position, errors>>
            \/ /\ Fail
               /\ RetryOrFail(s, "find")
               /\ UNCHANGED <<zk, idx, my_position>>
    /\ UNCHANGED <<path_made, address_map, incarnation, crashes>>

\* A bug class for FindMyPosition: a node holding my own address is
\* taken as mine, although it belongs to an earlier session.
FindGetAdoptsOwn(s) ==
    /\ pc[s] = "findget"
    /\ \/ /\ zk[idx[s]] # NoNode
          /\ IF zk[idx[s]][1] = s
             THEN Acquired(s, idx[s])
             ELSE /\ Goto(s, "find")
                  /\ idx' = [idx EXCEPT ![s] = @ + 1]
                  /\ UNCHANGED <<my_position, retries>>
          /\ UNCHANGED errors
       \/ /\ zk[idx[s]] = NoNode
          /\ RetryOrFail(s, "find")
          /\ UNCHANGED <<idx, my_position, errors>>
       \/ /\ Fail
          /\ RetryOrFail(s, "find")
          /\ UNCHANGED <<idx, my_position>>
    /\ UNCHANGED <<zk, path_made, address_map, incarnation, crashes>>

\* A bug class for FindMyPosition: `++pos` is left out after another
\* server's node, so the same position is tried again.
FindGetNoAdvance(s) ==
    /\ pc[s] = "findget"
    /\ \/ /\ zk[idx[s]] # NoNode
          /\ IF zk[idx[s]][1] = s THEN Goto(s, "delete") ELSE Goto(s, "find")
          /\ UNCHANGED <<idx, retries, errors>>
       \/ /\ zk[idx[s]] = NoNode
          /\ RetryOrFail(s, "find")
          /\ UNCHANGED <<idx, errors>>
       \/ /\ Fail
          /\ RetryOrFail(s, "find")
          /\ UNCHANGED idx
    /\ UNCHANGED <<zk, path_made, my_position, address_map, incarnation, crashes>>

\* TryCreatingNode after EXISTS: GetNode.  A node holding my own address
\* (from an earlier run of mine) is deleted next; another server's node
\* sends FindMyPosition to the next position.  A node gone meanwhile, or a
\* failed GetNode, makes TryCreatingNode return false: retry.
FindGet(s) ==
    /\ pc[s] = "findget"
    /\ \/ /\ zk[idx[s]] # NoNode
          /\ IF zk[idx[s]][1] = s
             THEN /\ Goto(s, "delete")
                  /\ UNCHANGED idx
             ELSE /\ Goto(s, "find")
                  /\ idx' = [idx EXCEPT ![s] = @ + 1]
          /\ UNCHANGED <<retries, errors>>
       \/ /\ zk[idx[s]] = NoNode
          /\ RetryOrFail(s, "find")
          /\ UNCHANGED <<idx, errors>>
       \/ /\ Fail
          /\ RetryOrFail(s, "find")
          /\ UNCHANGED idx
    /\ UNCHANGED <<zk, path_made, my_position, address_map, incarnation, crashes>>

\* DeleteNode of my own stale node (ZOK or ZNONODE), then compete for the
\* same position again; a failed delete makes Init return false.
FindDelete(s) ==
    /\ pc[s] = "delete"
    /\ \/ /\ zk' = [zk EXCEPT ![idx[s]] = NoNode]
          /\ Goto(s, "find")
          /\ UNCHANGED errors
       \/ /\ Fail
          /\ Goto(s, "failed")
          /\ UNCHANGED zk
    /\ UNCHANGED <<path_made, idx, retries, my_position, address_map, incarnation, crashes>>

\* RefreshAddressMap, one pass at position idx: GetNode, and store the
\* address found, or "" for a missing node.  A failed GetNode costs a
\* retry and still stores "" (`address` is a fresh empty string) and moves
\* on.  After the last position Init checks the map.
RefreshGet(s) ==
    LET stored == IF zk[idx[s]] = NoNode THEN NoAddress ELSE zk[idx[s]][1]
        next   == IF idx[s] = NumPositions - 1 THEN "check" ELSE "refresh"
    IN  /\ pc[s] = "refresh"
        /\ \/ /\ address_map' = [address_map EXCEPT ![s][idx[s]] = stored]
              /\ Goto(s, next)
              /\ idx' = [idx EXCEPT ![s] = @ + 1]
              /\ UNCHANGED <<retries, errors>>
           \/ /\ Fail
              /\ RetryOrFail(s, next)
              /\ IF retries[s] <= 0
                 THEN UNCHANGED <<idx, address_map>>
                 ELSE /\ address_map' = [address_map EXCEPT ![s][idx[s]] = NoAddress]
                      /\ idx' = [idx EXCEPT ![s] = @ + 1]
        /\ UNCHANGED <<zk, path_made, my_position, incarnation, crashes>>

\* Init's `all_taken` test: an empty entry means sleep(1) and refresh
\* again with a new RefreshAddressMap(3); otherwise inited_ = true.
InitCheck(s) ==
    /\ pc[s] = "check"
    /\ IF \E p \in Positions : address_map[s][p] = NoAddress
       THEN /\ Goto(s, "refresh")
            /\ idx' = [idx EXCEPT ![s] = 0]
            /\ retries' = [retries EXCEPT ![s] = MaxRetries]
       ELSE /\ Goto(s, "inited")
            /\ UNCHANGED <<idx, retries>>
    /\ UNCHANGED <<zk, path_made, my_position, address_map, incarnation, errors, crashes>>

\* The server process dies; its session stops sending heartbeats.
Crash(s) ==
    /\ pc[s] \notin Down /\ crashes < MaxCrashes
    /\ Goto(s, "crashed")
    /\ crashes' = crashes + 1
    /\ UNCHANGED <<zk, path_made, idx, retries, my_position, address_map, incarnation, errors>>

\* The server is started again, with the same address and a new session.
Restart(s) ==
    /\ pc[s] \in Down
    /\ Fresh(s)
    /\ incarnation' = [incarnation EXCEPT ![s] = @ + 1]
    /\ UNCHANGED <<zk, path_made, errors, crashes>>

\* ZooKeeper expires the dead session of a node and removes the node.
Expire(p) ==
    /\ zk[p] # NoNode
    /\ ~SessionAlive(zk[p])
    /\ zk' = [zk EXCEPT ![p] = NoNode]
    /\ UNCHANGED <<path_made, pc, idx, retries, my_position, address_map,
                   incarnation, errors, crashes>>

Done == {"inited"}

\* Every server's Init has returned true: nothing is left to do.
Finished ==
    /\ \A s \in Servers : pc[s] \in Done
    /\ \A p \in Positions : zk[p] = NoNode \/ SessionAlive(zk[p])
    /\ UNCHANGED vars

Step(s) ==
    \/ Connect(s) \/ MakeZkPathStep(s) \/ FindCreate(s) \/ FindGet(s)
    \/ FindDelete(s) \/ RefreshGet(s) \/ InitCheck(s)

Next ==
    \/ \E s \in Servers : Step(s) \/ Crash(s) \/ Restart(s)
    \/ \E p \in Positions : Expire(p)
    \/ Finished

\* Each running server is scheduled; a server that exited is eventually
\* restarted; ZooKeeper eventually expires a dead session.
Spec ==
    /\ Init /\ [][Next]_vars
    /\ \A s \in Servers : WF_vars(Step(s)) /\ WF_vars(Restart(s))
    /\ \A p \in Positions : WF_vars(Expire(p))

-----------------------------------------------------------------------------
Node == Session \cup {NoNode}

TypeOK ==
    /\ zk \in [Positions -> Node]
    /\ path_made \subseteq 1 .. PathDepth
    /\ pc \in [Servers -> {"connect", "mkpath", "find", "findget", "delete",
                           "refresh", "check", "inited", "failed", "crashed"}]
    /\ idx \in [Servers -> 0 .. NumPositions + PathDepth]
    /\ retries \in [Servers -> 0 .. MaxRetries]
    /\ my_position \in [Servers -> Positions \cup {kPositionBackupServer}]
    /\ address_map \in [Servers -> [Positions -> Servers \cup {NoAddress}]]
    /\ incarnation \in [Servers -> 0 .. MaxRuns]
    /\ errors \in 0 .. MaxErrors /\ crashes \in 0 .. MaxCrashes

\* Past FindMyPosition
Settled(s) == pc[s] \in {"refresh", "check", "inited"}

\* One and only one server holds each position (membership_manager.h): a
\* running server that has taken position p is the one whose node, of its
\* current session, is leader-<p>, although restarted servers delete nodes
\* holding their own address and ZooKeeper removes dead sessions' nodes.
PositionHeldExclusively ==
    \A s \in Servers :
        (Settled(s) /\ my_position[s] # kPositionBackupServer)
            => zk[my_position[s]] = <<s, incarnation[s]>>

\* A server never takes as its position a node of one of its own earlier
\* sessions, which ZooKeeper will remove when that session expires: the
\* node FindMyPosition finds holding my_service_address is deleted and
\* competed for again, never adopted.
NoStaleAdoption ==
    \A s \in Servers :
        (Settled(s) /\ my_position[s] # kPositionBackupServer)
            => zk[my_position[s]] \notin {<<s, k>> : k \in 0 .. incarnation[s] - 1}

\* FindMyPosition ends on every server for good, through competing
\* servers, stale nodes, crashes and failed calls: eventually every server
\* has a position or is a backup, and runs RefreshAddressMap.
PositionsDecided == <>[](\A s \in Servers : Settled(s))

=============================================================================
