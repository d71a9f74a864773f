------------------------ MODULE MCConcurrentCommands ------------------------
(* Kustomizations below one another, two of them in one directory; pods    *)
(* with every kind of line; two watches; receivers of every type, called   *)
(* with credentials that are theirs and with others.                       *)
EXTENDS ConcurrentCommands

MCRetries == {-1, 0, 2}

MCPlans == {<<"apps">>, <<"apps", "infra", "apps">>, <<"apps", "apps", "infra">>}

APod(running, refused, log) == [running |-> running, refused |-> refused, log |-> log]
MCClusters ==
    {<<>>,
     <<<<>>, <<APod(FALSE, TRUE, <<>>), APod(TRUE, FALSE, <<"entry", "text", "long", "broken", "entry">>)>>>>,
     <<<<APod(TRUE, FALSE, <<"entry", "text", "long">>)>>,
       <<APod(FALSE, TRUE, <<>>), APod(TRUE, FALSE, <<"unwanted", "entry", "broken", "entry">>)>>>>,
     <<<<APod(TRUE, FALSE, <<"entry", "entry">>)>>, <<APod(FALSE, TRUE, <<>>)>>>>,
     <<<<APod(TRUE, FALSE, <<"entry", "oversized", "broken">>)>>, <<APod(TRUE, FALSE, <<"long", "broken">>)>>>>,
     <<<<APod(TRUE, TRUE, <<>>)>>, <<APod(TRUE, TRUE, <<>>)>>, <<APod(TRUE, FALSE, <<"long", "entry">>)>>>>}

Receivers ==
    {[type |-> "generic", token |-> "t", audience |-> ""],
     [type |-> "generic-hmac", token |-> "t", audience |-> ""],
     [type |-> "generic-oidc", token |-> "", audience |-> "notification-controller"]}
MCInvocations ==
    [type : {"generic", "generic-hmac", "generic-oidc"}, token : {"", "t"}, provider : {"", "github"},
     oidcToken : {"", "notification-controller"}, audience : {"", "mine"},
     env : {"", "notification-controller"}, receiver : Receivers]
=============================================================================
