------------------------------ MODULE MCFiles ------------------------------
(***************************************************************************)
(* An instance of Files, and with it of Access and SignIn, for TLC: two    *)
(* accounts and a third email, and batches of requests that race: sign-ins *)
(* by password and by Google; a key's edit, deletion and use; the jump     *)
(* host; a pairing polled twice and approved by two accounts; a token      *)
(* rotated while the device dials; a file sent twice by the same signed    *)
(* URL; a file pulled, and read by those who may and those who may not     *)
(* while the key is narrowed; live screenshots of a device that is         *)
(* deleted.                                                                *)
(***************************************************************************)
EXTENDS Files

\* requests, by name
OpOf ==
  [reg     |-> [kind |-> "register", email |-> "eve"],
   bad1    |-> [kind |-> "login", email |-> "ann", right |-> FALSE],
   bad2    |-> [kind |-> "login", email |-> "ann", right |-> FALSE],
   bad3    |-> [kind |-> "login", email |-> "bob", right |-> FALSE],
   bad4    |-> [kind |-> "login", email |-> "eve", right |-> FALSE],
   good    |-> [kind |-> "login", email |-> "ann", right |-> TRUE],
   google1 |-> [kind |-> "google", sub |-> "g", email |-> "eve"],
   google2 |-> [kind |-> "google", sub |-> "g", email |-> "eve"],
   google3 |-> [kind |-> "google", sub |-> "g", email |-> "ann"],
   logout  |-> [kind |-> "logout", by |-> "annTab"],
   create  |-> [kind |-> "createDevice", by |-> "good", dev |-> "d5"],
   rotate  |-> [kind |-> "rotateToken", by |-> "annTab", dev |-> "d1"],
   delete  |-> [kind |-> "deleteDevice", by |-> "annTab", dev |-> "d1"],
   grab    |-> [kind |-> "deleteDevice", by |-> "bobTab", dev |-> "d1"],
   newkey  |-> [kind |-> "createKey", by |-> "annTab", key |-> "k2",
                scope |-> [allDevices |-> FALSE, devices |-> {"d1", "d2"}, allMethods |-> FALSE,
                           methods |-> {"tap"}, tunnel |-> FALSE]],
   steal   |-> [kind |-> "createKey", by |-> "bobTab", key |-> "k3",
                scope |-> [allDevices |-> FALSE, devices |-> {"d1"}, allMethods |-> TRUE,
                           methods |-> {}, tunnel |-> FALSE]],
   edit    |-> [kind |-> "updateKey", by |-> "annTab", key |-> "k1",
                scope |-> [allDevices |-> FALSE, devices |-> {"d2"}, allMethods |-> FALSE,
                           methods |-> {"pull"}, tunnel |-> TRUE]],
   drop    |-> [kind |-> "deleteKey", by |-> "annTab", key |-> "k1"],
   pry     |-> [kind |-> "deleteKey", by |-> "bobTab", key |-> "k1"],
   call    |-> [kind |-> "call", key |-> "k1", method |-> "tap", dev |-> "d1"],
   call2   |-> [kind |-> "call", key |-> "k2", method |-> "tap", dev |-> "d2"],
   tunnel  |-> [kind |-> "connect", key |-> "k1", dev |-> "d2"],
   tunnel1 |-> [kind |-> "connect", key |-> "k1", dev |-> "d1"],
   addkey  |-> [kind |-> "addPrint", by |-> "annTab", print |-> "f"],
   addkey2 |-> [kind |-> "addPrint", by |-> "bobTab", print |-> "f"],
   delkey  |-> [kind |-> "deletePrint", by |-> "annTab", print |-> "f"],
   jump    |-> [kind |-> "jump", print |-> "f", dev |-> "d1"],
   pair    |-> [kind |-> "pair", code |-> "c"],
   yes     |-> [kind |-> "approve", by |-> "annTab", code |-> "c"],
   yes2    |-> [kind |-> "approve", by |-> "bobTab", code |-> "c"],
   poll    |-> [kind |-> "poll", code |-> "c", dev |-> "d3"],
   poll2   |-> [kind |-> "poll", code |-> "c", dev |-> "d4"],
   dial    |-> [kind |-> "dial", dev |-> "d1", token |-> 1],
   mint    |-> [kind |-> "call", key |-> "k4", method |-> "push", dev |-> "d1"],
   send1   |-> [kind |-> "send", of |-> "mint"],
   send2   |-> [kind |-> "send", of |-> "mint"],
   pull    |-> [kind |-> "call", key |-> "k4", method |-> "pull", dev |-> "d1"],
   fetch   |-> [kind |-> "fetch", of |-> "pull"],
   narrow  |-> [kind |-> "updateKey", by |-> "annTab", key |-> "k4",
                scope |-> [allDevices |-> FALSE, devices |-> {"d2"}, allMethods |-> TRUE,
                           methods |-> {}, tunnel |-> FALSE]],
   byKey   |-> [kind |-> "keyRead", key |-> "k4", blob |-> "pull", dev |-> "d1"],
   byKey1  |-> [kind |-> "keyRead", key |-> "k4", blob |-> "send1", dev |-> None],
   byAnn   |-> [kind |-> "sessionRead", by |-> "annTab", blob |-> "pull"],
   byBob   |-> [kind |-> "sessionRead", by |-> "bobTab", blob |-> "pull"],
   byD1    |-> [kind |-> "deviceRead", by |-> "d1", blob |-> "pull", dev |-> "d1"],
   byD2    |-> [kind |-> "deviceRead", by |-> "d2", blob |-> "pull", dev |-> "d1"],
   pull2   |-> [kind |-> "call", key |-> "k4", method |-> "pull", dev |-> "d1"],
   compute |-> [kind |-> "call", key |-> "k4", method |-> "computer", dev |-> "d1"],
   byBobKey |-> [kind |-> "keyRead", key |-> "k5", blob |-> "pull", dev |-> "d1"],
   host    |-> [kind |-> "hostDial", dev |-> "d1"],
   live1   |-> [kind |-> "live", by |-> "annTab", dev |-> "d1"],
   live2   |-> [kind |-> "live", by |-> "bobTab", dev |-> "d1"],
   redial  |-> [kind |-> "dial", dev |-> "d1", token |-> 2]]

AllBatches ==
  {{"bad1", "bad2", "bad3", "bad4", "good"},
   {"reg", "google1", "google2", "google3"},
   {"good", "create", "logout", "delete", "newkey"},
   {"edit", "call", "tunnel", "drop"},
   {"edit", "tunnel1", "pry", "grab"},
   {"newkey", "call2", "delete", "steal", "logout"},
   {"addkey", "addkey2", "jump", "delkey"},
   {"pair", "yes", "yes2", "poll", "poll2"},
   {"rotate", "dial", "redial", "delete"},
   {"mint", "send1", "send2"},
   {"mint", "send1", "byKey1"},
   {"mint", "send1", "dial"},
   {"mint", "send1", "compute"},
   {"pull", "pull2", "host"},
   {"pull", "narrow", "byKey"},
   {"pull", "byBobKey", "byBob"},
   {"pull", "fetch", "byAnn"},
   {"pull", "byD1", "byD2"},
   {"delete", "byD1"},
   {"delete", "host"},
   {"live1", "live2", "delete"}}

OpenedTabs == [annTab |-> "ann", bobTab |-> "bob"]
FirstOwner == [d1 |-> "ann", d2 |-> "ann"]
FirstKey   == [k1 |-> [account |-> "ann",
                       scope |-> [allDevices |-> FALSE, devices |-> {"d1"}, allMethods |-> FALSE,
                                  methods |-> {"tap"}, tunnel |-> FALSE]],
               k4 |-> [account |-> "ann",
                       scope |-> [allDevices |-> FALSE, devices |-> {"d1"}, allMethods |-> FALSE,
                                  methods |-> {"push", "pull", "computer"}, tunnel |-> FALSE]],
               k5 |-> [account |-> "bob",
                       scope |-> [allDevices |-> TRUE, devices |-> {}, allMethods |-> TRUE,
                                  methods |-> {}, tunnel |-> FALSE]]]
AllReqs     == DOMAIN OpOf
AllSessions == AllReqs \cup DOMAIN OpenedTabs
=============================================================================
