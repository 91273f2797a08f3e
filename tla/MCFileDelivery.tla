--------------------------- MODULE MCFileDelivery ---------------------------
(* Hosts for FileDelivery: two labels of one machine, a second machine that *)
(* mounts the same storage, and one that shares a storage with the server.  *)
EXTENDS FileDelivery, TLC

Setting(host_, path, sharedHost, sharedPath, withLocalhost, localSharedPath) ==
  [host |-> host_, path |-> path, sharedHost |-> sharedHost, sharedPath |-> sharedPath,
   sharedWithLocalhost |-> withLocalhost, localSharedPath |-> localSharedPath]

MCInfo == [
  A1 |-> Setting("a", "/work", "", "/scratch", FALSE, ""),
  A2 |-> Setting("a", "/scratch", "", "/work", FALSE, ""),
  B |-> Setting("b", "/work", "A1", "/work", FALSE, ""),
  C |-> Setting("c", "/data", "", "/data", TRUE, "/mnt")]

MCMount == [
  localhost |-> ("/home" :> "server" @@ "/mnt" :> "site"),
  a |-> ("/work" :> "work" @@ "/scratch" :> "scratch"),
  b |-> ("/work" :> "work"),
  c |-> ("/data" :> "site")]

MCStorageBase == [localhost |-> "/mnt", A1 |-> "/work", A2 |-> "/scratch", B |-> "/work", C |-> "/data"]

\* Two consumers in one place of the tree, the second a task; links copied only in one workflow.
MCInit ==
  /\ Init
  /\ place["c1"].parent = place["c2"].parent /\ place["c2"].type = "task"
  /\ place[Producer].parent # "other"
  /\ "forceCopy" \in options => \A n \in DOMAIN place : place[n].parent = Root
MCSpec == MCInit /\ [][Next]_vars
=============================================================================
