--------------------------- MODULE MCReconciliation ---------------------------
(* Instance of Reconciliation for TLC: four tickets in three worlds.        *)
EXTENDS Reconciliation, TLC

Planned ==
    [DefaultTicket EXCEPT
        !.summary = 1, !.dirs = {1}, !.urls = {1}, !.argocd_app = 1,
        !.pull_requests = {[number |-> 1, repo |-> 1, url |-> 1, state |-> "open"]},
        !.builds = {[controller |-> c, job |-> 1, number |-> 2, result |-> "SUCCESS"] :
                        c \in {1, 2}},
        !.sync = "synced", !.expected_revision = 1,
        !.tempo_logged = TRUE, !.tempo_seconds = 10]

Finished ==
    [Planned EXCEPT
        !.complete = TRUE, !.implementation_complete = TRUE, !.deployment_complete = TRUE,
        !.pull_requests = {[number |-> 1, repo |-> 1, url |-> 1, state |-> "merged"]},
        !.builds = {[controller |-> 1, job |-> 1, number |-> 2, result |-> "FAILURE"]},
        !.tempo_seconds = 7, !.created_at = 1]

OfService ==
    [DefaultTicket EXCEPT
        !.services = {"svc"}, !.dirs = {1}, !.urls = {1}, !.uncommitted = TRUE,
        !.pull_requests = {[number |-> 1, repo |-> 0, url |-> 0, state |-> "draft"],
                           [number |-> 2, repo |-> 1, url |-> 0, state |-> "open"],
                           [number |-> 3, repo |-> 1, url |-> 1, state |-> "draft"]},
        !.builds = {[controller |-> 0, job |-> 1, number |-> 2, result |-> "FAILURE"]},
        !.sync = "out_of_sync", !.created_at = 1]

Careless ==
    [DefaultTicket EXCEPT
        !.dirs = {1, 3}, !.urls = {3},
        !.builds = {[controller |-> Blank, job |-> 1, number |-> 2, result |-> "SUCCESS"]},
        !.pull_requests = {[number |-> 1, repo |-> 1, url |-> 0, state |-> "merged"]}]

MCTickets == {Planned, Finished, OfService, Careless}

Pulled(n, s, d, m) == [number |-> n, state |-> s, draft |-> d, mentions |-> m]
Built(n, r) == [number |-> n, result |-> r]

Outside(issue, clone, pulls1, pulls2, builds1, builds2, live, logged) ==
    [t \in Targets |->
        CASE t = Jira -> issue
          [] t = Tempo -> logged
          [] t.system = "git" /\ t.name # 0 -> clone
          [] t = Github(1) -> pulls1
          [] t = Github(2) -> pulls2
          [] t.system = "jenkins" /\ t.controller = 1 -> builds1
          [] t.system = "jenkins" /\ t.controller = 2 -> builds2
          [] t.system = "argocd" /\ t.name # 0 -> live
          [] OTHER -> {}]

MCWorlds ==
    {Outside([summary |-> 1, category |-> "indeterminate"],
             [present |-> TRUE, dirty |-> FALSE, ahead |-> 0],
             {Pulled(1, "open", FALSE, TRUE)}, {},
             {Built(1, "FAILURE"), Built(2, "SUCCESS")}, {Built(2, "FAILURE")},
             [sync |-> "Synced", revision |-> 1], <<10, 10>>),
     Outside([summary |-> 2, category |-> "done"],
             [present |-> TRUE, dirty |-> TRUE, ahead |-> 1],
             {Pulled(1, "open", TRUE, TRUE), Pulled(2, "merged", FALSE, TRUE),
              Pulled(3, "open", TRUE, TRUE)},
             {Pulled(1, "merged", FALSE, TRUE), Pulled(2, "closed", FALSE, TRUE)},
             {Built(2, "SUCCESS"), Built(3, "SUCCESS"), Built(4, "")}, {Built(2, "SUCCESS")},
             [sync |-> "OutOfSync", revision |-> 2], <<10, 0>>),
     Outside([summary |-> 0, category |-> "new"],
             [present |-> FALSE, dirty |-> FALSE, ahead |-> 0],
             {Pulled(1, "closed", FALSE, FALSE)}, {Pulled(1, "open", FALSE, FALSE)},
             {Built(2, "FAILURE"), Built(3, "")}, {},
             [sync |-> "Unknown", revision |-> 0], <<0, 0>>)}

MCSelections == {{"jira", "svn"}, {"argocd", "jira"}, {"git", "tempo"}, {"github"},
                 {"github", "jenkins"}}
MCControllerSets == {{}, {1}, {1, 2}}
MCCatalog == [s \in {"svc"} |->
                 [dirs |-> {2}, urls |-> {2}, apps |-> {1}, jobs |-> {<<2, 1>>}]]
MCWithin == [r \in Repos |-> IF r = 1 THEN {1, 2} ELSE {r}]
=============================================================================
