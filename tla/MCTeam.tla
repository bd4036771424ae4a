------------------------------- MODULE MCTeam -------------------------------
EXTENDS TeamDeployment

MCPrincipals == {"alice", "bob"}
MCPolicyDocs == {"p1", "p1x", "p2"}

(* Revision 2 takes bob's role away; p1x is revision 1 in other bytes.     *)
MCRoles(bob) == [alice |-> {"investigator", "policy_administrator"}, bob |-> bob]
MCDocument(revision, effective, bob) ==
    [policy_id |-> "policy", revision |-> revision, effective_at |-> effective,
     minimum_days |-> 1, roles |-> MCRoles(bob)]
MCPolicy == [p1  |-> MCDocument(1, 0, {"investigator"}),
             p1x |-> MCDocument(1, 0, {}),
             p2  |-> MCDocument(2, 0, {})]

MCBase(case) == [case_id |-> case, decision |-> "approve", consequential |-> {}]
MCCanary(base, look, decision) ==
    [base |-> base, comparison_id |-> "cmp", look_number |-> look, maximum_looks |-> 2,
     decision |-> decision, deployments |-> "d", started_at |-> 0, ended_at |-> 1,
     compared_at |-> 1]
MCArtifacts == [b1 |-> MCBase("c1"), b2 |-> MCBase("c2"),
                 d1 |-> [base |-> "b1", published_at |-> 0, verified_at |-> 0],
                a1 |-> [delivery |-> "d1", issued_at |-> 0, checked_at |-> 0,
                        expires_at |-> 1, revocations_at |-> 0, action |-> "approve", codes |-> {}],
                k1 |-> MCCanary("b1", 1, "continue"),
                k2 |-> MCCanary("b1", 2, "promote")]

MCIntent(who, kind, target, change) ==
    [who |-> who, kind |-> kind, target |-> target, change |-> change]
MCOpen(who, id) == MCIntent(who, "open", id, [cluster |-> "x", priority |-> "low"])
MCClose(who, id, resolution, case, other) ==
    MCIntent(who, "transition", id,
             [status |-> "closed", priority |-> "low", assigned_to |-> None,
              resolution |-> resolution, linked_case_id |-> case, duplicate_of |-> other])
MCSources(base, delivery, approval, canary) ==
    [base |-> base, delivery |-> delivery, approval |-> approval, canary |-> canary]

(* A payload that is the record openA stores at instant 0, byte for byte.  *)
MCLookalike ==
    Carried("investigation", CreateInvestigation("A", "x", "low", 0, "alice"))
MCPayloads == {Subject, MCLookalike}

MCIntents ==
    [ openA    |-> MCOpen("alice", "A"),
      openB    |-> MCOpen("bob", "B"),
      dupAB    |-> MCClose("alice", "A", "duplicate", None, "B"),
      dupBA    |-> MCClose("bob", "B", "duplicate", None, "A"),
      linkA    |-> MCClose("bob", "A", "change_case_opened", "c1", None),
      attachA  |-> MCIntent("bob", "attach", "A", [cluster |-> "y"]),
      assignA  |-> MCIntent("alice", "transition", "A",
                     [status |-> "investigating", priority |-> "low",
                      assigned_to |-> "bob", resolution |-> None,
                      linked_case_id |-> None, duplicate_of |-> None]),
      publish1 |-> MCIntent("alice", "publish", "c1", MCSources("b1", None, None, "k1")),
      publish2 |-> MCIntent("bob", "publish", "c1", MCSources("b1", "d1", "a1", "k2")),
      publishC |-> MCIntent("bob", "publish", "c2", MCSources("b2", None, None, None)),
      act      |-> MCIntent("bob", "action", "A",
                     [action |-> "evidence_read", type |-> "investigation",
                      outcome |-> "failed", payload |-> Subject]),
      copy     |-> MCIntent("alice", "action", "A",
                     [action |-> "investigation_write", type |-> "investigation",
                      outcome |-> "succeeded", payload |-> MCLookalike]),
      export   |-> MCIntent("alice", "export", "export", None) ]

MCAgenda == [requests |-> {}, policies |-> {"p1"}, cli |-> FALSE, backup |-> FALSE,
             walks |-> {}, schema |-> 3, tries |-> 1, time |-> 1]

MCAgendas ==
    { [MCAgenda EXCEPT !.requests = {"openA", "openB", "dupAB", "dupBA"}],
      [MCAgenda EXCEPT !.requests = {"openA", "publish1", "publish2", "linkA"}],
      [MCAgenda EXCEPT !.requests = {"openA", "attachA", "assignA"},
                       !.policies = {"p1", "p1x", "p2"}],
      [MCAgenda EXCEPT !.requests = {"act", "export"}, !.cli = TRUE, !.tries = 2],
      [MCAgenda EXCEPT !.requests = {"act", "export"}, !.policies = {"p1", "p2"}, !.cli = TRUE],
      [MCAgenda EXCEPT !.requests = {"act", "export"}, !.policies = {"p1", "p2"}, !.tries = 2],
      [MCAgenda EXCEPT !.requests = {"copy", "openA"}, !.cli = TRUE],
      [MCAgenda EXCEPT !.requests = {"copy", "openA"}, !.backup = TRUE, !.time = 0],
      [MCAgenda EXCEPT !.requests = {"openA", "openB", "attachA"},
                       !.walks = {<<"investigations", None>>, <<"investigations", "queued">>}],
      [MCAgenda EXCEPT !.requests = {"publish1", "publishC"}, !.time = 0,
                       !.walks = {<<"cases", None>>, <<"events", None>>}] }
    \cup { [MCAgenda EXCEPT !.schema = version, !.time = 0] : version \in 0 .. 2 }
=============================================================================
