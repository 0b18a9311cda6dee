----------------------------- MODULE MCServices -----------------------------
(* The services of the server for TLC, in one run: they share no state, so a
   behaviour is of one of them. *)
EXTENDS Messaging, NodeMonitor, Notifications, AppLoad, Descriptors, Packages,
    KMessage, Users, Listing, ThreadInfos

CONSTANTS t1, t2, l1, l2, g1

TheOwner == (l1 :> t1) @@ (l2 :> t2)
TheHost == ("d1" :> "w") @@ ("d2" :> "w")
TheWants == (l1 :> {"d2", Volume}) @@ (l2 :> {"d1", "d2", Mounts})
TheTeam == ("th" :> g1)

TheUp == [p \in Place |-> CASE p = "g" -> "d" [] p = "c" -> "s" [] OTHER -> Top]
TheKind == [p \in Place |-> CASE p \in {"d", "s"} -> "dir" [] p \in {"la", "lb"} -> "link" [] OTHER -> "file"]
TheSelf == ("a" :> "la") @@ ("b" :> "lb")
In(time, names) == [time |-> time, writable |-> FALSE, attrs |-> names]
Setting(time) == [time |-> time, writable |-> TRUE, attrs |-> {}]
\* The file f of b comes between those of two versions of a, the first of which
\* also has g, under that of b, and the second libroot.so; both have a setting.
TheToc ==
    "a" :> <<"f" :> In(1, {<<"/">>}) @@ "d" :> In(1, {}) @@ "g" :> In(1, {})
                @@ "s" :> In(1, {}) @@ "c" :> Setting(1),
             "f" :> In(3, {}) @@ "o" :> In(2, {}) @@ "s" :> In(1, {}) @@ "c" :> Setting(2)>>
    @@ "b" :> <<"f" :> In(2, {<<"_">>}) @@ "d" :> In(1, {}) @@ "g" :> In(2, {})>>
TheNames == {<<"/">>, <<".">>, <<"_">>}
TheLabels == {<<"f", <<".">>>>}

TheNameLength == ("a" :> 2) @@ ("b" :> 5)
TheSizeOf == ("int8" :> 1) @@ ("int32" :> 4)
TheStringLength == ("x" :> 1) @@ ("y" :> 4)

TheHostId == ("ann" :> 1000) @@ ("bob" :> 1001) @@ ("eve" :> 1002)
TheOwnUsers == {[name |-> "user", id |-> 0], [name |-> "ftp", id |-> 20]}

VARIABLE part

vars == <<part, messagingVars, monitorVars, notificationVars, appLoadVars, descriptorVars, packageVars,
          kmessageVars, userVars, listingVars, infosVars, threadInfosVars>>

Init ==
    /\ part \in {"messaging", "monitor", "notifications", "appload", "descriptors", "packages",
                 "kmessage", "users", "listing", "infos", "threadinfos"}
    /\ MessagingInit /\ NodeMonitorInit /\ NotificationsInit /\ AppLoadInit
    /\ DescriptorsInit /\ PackagesInit /\ KMessageInit /\ UsersInit
    /\ ListingInit /\ InfosInit /\ ThreadInfosInit
    /\ part = "listing" \/ (kind = "team" /\ listable = {})
Next ==
    /\ UNCHANGED part
    /\ IF part = "messaging" THEN MessagingStep ELSE UNCHANGED messagingVars
    /\ IF part = "monitor" THEN NodeMonitorStep ELSE UNCHANGED monitorVars
    /\ IF part = "notifications" THEN NotificationsStep ELSE UNCHANGED notificationVars
    /\ IF part = "appload" THEN AppLoadStep ELSE UNCHANGED appLoadVars
    /\ IF part = "descriptors" THEN DescriptorsStep ELSE UNCHANGED descriptorVars
    /\ IF part = "packages" THEN PackagesStep ELSE UNCHANGED packageVars
    /\ IF part = "kmessage" THEN KMessageStep ELSE UNCHANGED kmessageVars
    /\ IF part = "users" THEN UsersStep ELSE UNCHANGED userVars
    /\ IF part = "listing" THEN ListingStep ELSE UNCHANGED listingVars
    /\ IF part = "infos" THEN InfosStep ELSE UNCHANGED infosVars
    /\ IF part = "threadinfos" THEN ThreadInfosStep ELSE UNCHANGED threadInfosVars

Spec == Init /\ [][Next]_vars

-----------------------------------------------------------------------------
(* What some of the parts promise together, asked only where they move *)

\* Whoever wants an event is told of it once for each thing of his that it is
\* about, and the lists of the monitors, of the volumes, of inotify and of the
\* teams agree on who watches what, over volumes and teams that go.  (ToldExactly
\* and WatchesAgree in NodeMonitor)
WatchersTold == part = "monitor" => ToldExactly /\ WatchesAgree

\* After any series of mounts, unmounts, ends of the server and requests, a volume
\* shows the files of the packages it lists as installed and nothing of those that
\* have gone, and an attribute reads as what was written under its name, from its
\* start or at its end.
\* (PackagesShown and AttrsReadBack in Packages)
PackagesAgree == part = "packages" => PackagesShown /\ AttrsReadBack
=============================================================================
