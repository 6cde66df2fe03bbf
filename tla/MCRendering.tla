---------------------------- MODULE MCRendering ----------------------------
(***************************************************************************)
(* Manifests for Rendering: one with two zones, two replicas and a link,   *)
(* one with volumes and logs, one with a number in the name of its group,  *)
(* and many of errands, which are resolved and converted but have no pods, *)
(* for links, addons, values, volumes and everything that fails.           *)
(***************************************************************************)
EXTENDS Rendering

J(release, name) == [name |-> name, release |-> release, addon |-> FALSE, consumes |-> <<>>,
                     provides |-> <<>>, props |-> <<>>, preset |-> {}, ports |-> {}, scriptsWork |-> TRUE]
G(name, lifecycle, jobs) == [name |-> name, instances |-> 1, azs |-> <<>>, jobs |-> jobs, stemcell |-> "default",
                             lifecycle |-> lifecycle, disk |-> 0, logs |-> FALSE]
M(groups) == [groups |-> groups, releases |-> "rel" :> {} @@ "obs" :> {"sle"},
              stemcells |-> "default" :> "ubuntu", addons |-> <<>>, applied |-> FALSE, variables |-> {}]
P(name) == [name |-> name, prestart |-> "", ephemeral |-> FALSE, persistent |-> FALSE,
            additional |-> <<>>, unrestricted |-> <<>>]
V(path, writable) == [path |-> path, writable |-> writable]
Both(processes) == {[b \in BOOLEAN |-> processes]}
Set(job, paths) == [job EXCEPT !.props = paths]

MCSpecs ==
    <<"rel", "pg">> :>
       [props |-> <<"port">> :> Text("5432") @@ <<"tls", "cert">> :> Text("none"),
        provides |-> <<[name |-> "db", type |-> "sql", properties |-> <<<<"port">>, <<"tls", "cert">>, <<"users">>>>]>>,
        consumes |-> <<>>, bpm |-> Both(<<P("pg")>>)]
    @@ <<"rel", "web">> :>
       [props |-> <<>>, provides |-> <<>>, consumes |-> <<[name |-> "db", type |-> "sql", optional |-> FALSE]>>,
        bpm |-> {[b \in BOOLEAN |-> IF b THEN <<P("web"), P("migrate")>> ELSE <<P("web")>>]}]
    @@ <<"rel", "app">> :>
       [props |-> <<>>, provides |-> <<>>, consumes |-> <<[name |-> "db", type |-> "sql", optional |-> TRUE]>>,
        bpm |-> Both(<<P("app")>>)]
    @@ <<"rel", "plain">> :> [props |-> <<>>, provides |-> <<>>, consumes |-> <<>>, bpm |-> {}]
    @@ <<"rel", "plain-x">> :> [props |-> <<>>, provides |-> <<>>, consumes |-> <<>>, bpm |-> {}]
    @@ <<"obs", "agent">> :>
       [props |-> <<>>, provides |-> <<[name |-> "db", type |-> "sql", properties |-> <<<<"port">>>>]>>,
        consumes |-> <<>>, bpm |-> Both(<<P("agent")>>)]

\* Two zones and two replicas, a provider and its consumer.
Zoned == M(<<[G("zoned", "service", <<[J("rel", "pg") EXCEPT !.ports = {1}], J("rel", "app")>>)
             EXCEPT !.azs = <<"z1", "z2">>, !.instances = 2]>>)

\* Two zones with one replica, one zone with two.
Spread == {M(<<[G("spread", "service", <<[J("rel", "pg") EXCEPT !.ports = {1}]>>) EXCEPT !.azs = <<"z1", "z2">>]>>),
           M(<<[G("row", "service", <<[J("rel", "pg") EXCEPT !.ports = {1}]>>) EXCEPT !.instances = 2]>>)}

\* One pod with logs, volumes of all kinds and a pre-start hook; presets merge
\* with bpm.yml or stand alone.
Busy == <<[P("busy") EXCEPT !.prestart = "hook", !.ephemeral = TRUE, !.persistent = TRUE,
              !.additional = <<V(<<"data", "x">>, TRUE), V(<<"store", "y">>, FALSE), V(<<"sys", "run", "z">>, TRUE)>>,
              !.unrestricted = <<V(<<"data", "x">>, FALSE), V(<<"other", "etc">>, FALSE), V(<<"jobs", "q">>, TRUE)>>]>>
Disks == M(<<[G("disks", "", <<[J("rel", "plain") EXCEPT !.preset = {Busy}], J("rel", "pg")>>)
             EXCEPT !.disk = 1, !.logs = TRUE]>>)

\* The name of the group has a number in it.
Numbered == M(<<[G("cell-1", "service", <<J("rel", "pg")>>) EXCEPT !.instances = 2]>>)

-----------------------------------------------------------------------------
Renamed == "db" :> [kind |-> "as", as |-> "primary"]
Provides == {<<>>, Renamed, "db" :> [kind |-> "map", as |-> ""], "db" :> [kind |-> "nil", as |-> ""],
             "db" :> [kind |-> "other", as |-> ""]}
Consumes == {<<>>, "db" :> [kind |-> "nil", from |-> ""], "db" :> [kind |-> "map", from |-> ""],
             "db" :> [kind |-> "from", from |-> "primary"]}
PgProps == {<<>>, <<"tls", "cert">> :> Ref("cert", "certificate") @@ <<"users", "admin">> :> Ref("pass", "")}

\* A provider, perhaps a second one, and a consumer; the observability addon,
\* which provides the link too, may be placed on either group.
Addon(group, lifecycle) ==
    [name |-> "observe", aliasesDecode |-> TRUE, jobs |-> <<Set(J("obs", "agent"), <<"port">> :> Ref("domain", ""))>>,
     include |-> {[stemcells |-> {}, jobs |-> {}, groups |-> {group}, lifecycle |-> lifecycle]}, exclude |-> {}]
Linked(provides, consumes, props, addons, consumer) ==
    [M(<<G("db", "errand", <<[J("rel", "pg") EXCEPT !.provides = provides, !.props = props]>>),
         G("api", "auto-errand", <<[J("rel", consumer) EXCEPT !.consumes = consumes]>>)>>)
        EXCEPT !.addons = addons, !.variables = {"cert", "pass"}]
Links ==
    {Linked(pr, co, ps, ad, "web") : pr \in Provides, co \in Consumes, ps \in PgProps,
        ad \in {<<>>, <<Addon("db", "errand")>>, <<Addon("api", "errand")>>, <<Addon("api", "service")>>}}
    \cup {Linked(pr, <<>>, <<>>, <<>>, "app") : pr \in Provides}
    \cup {M(<<G("db", "errand", <<J("rel", "pg"), J("rel", "pg")>>)>>)}

-----------------------------------------------------------------------------
MCLongTexts == {"long1", "long2"}
MCSecrets == "domain" :> Text("example") @@ "nested" :> Ref("pass", "") @@ "big" :> Text("long1")
MCFiles == "cert" :> ("certificate" :> Text("long1") @@ "private_key" :> Text("long2"))
           @@ "pass" :> ("password" :> Text("secret"))

\* Values: texts and variables of all kinds in the properties of one job; an
\* implicit variable that has no Secret.
Refs == {Text("short"), Text("long1"), Text("long2"), Ref("domain", ""), Ref("nested", ""), Ref("big", ""),
         Ref("cert", "private_key"), Ref("cert", "certificate")}
Valued(a, b, c, key) ==
    [M(<<G("web", "errand", <<Set(J("rel", "pg"), <<"a">> :> a @@ <<"b", "x">> :> b @@ <<"b", key>> :> c)>>)>>)
        EXCEPT !.variables = {"cert", "pass"}]
Values == {Valued(a, b, c, "y") : a, b \in Refs, c \in {Text("long1"), Ref("big", "")}}
          \cup {Valued(a, Ref("domain", "field"), c, "*.y") : a, c \in Refs}
          \cup {Valued(Ref("unknown", ""), Text("short"), Text("short"), "y")}
\* A key that YAML quotes, also with the hash.
MCQuotedKeys == {"*.y", "*.y=hash"}

-----------------------------------------------------------------------------
\* Volumes, of one or of two processes, with and without a persistent disk.
Volumes1 == {<<>>, <<V(<<"data", "x">>, TRUE)>>, <<V(<<"store", "y">>, TRUE)>>, <<V(<<"store">>, TRUE)>>,
             <<V(<<"other", "p">>, TRUE), V(<<"other", "p">>, FALSE)>>,
             <<V(<<"database">>, TRUE)>>, <<V(<<"jobs-src">>, TRUE)>>}
MCBeginsWith == "database" :> "data" @@ "jobs-src" :> "jobs"
Procs == {[P(n) EXCEPT !.persistent = pd, !.prestart = hook, !.unrestricted = v] :
             n \in {"p"}, pd \in BOOLEAN, hook \in {"", "hook"}, v \in Volumes1}
Stored(procs, other, size) ==
    M(<<[G("store", "errand", <<[J("rel", "plain") EXCEPT !.preset = procs],
                                [J("rel", "pg") EXCEPT !.preset = other]>>) EXCEPT !.disk = size]>>)
Stores == {Stored({<<p>>}, {<<[P("pg") EXCEPT !.persistent = pd]>>}, n) : p \in Procs, pd \in BOOLEAN, n \in {0, 1}}
          \cup {Stored({<<p>>}, {<<[P("p") EXCEPT !.prestart = "hook"]>>}, 1) : p \in Procs}
          \cup {Stored({}, {}, 0)}

\* Additional volumes, allowed and not, and names that are the same together.
Extra(path) == Stored({<<[P("p") EXCEPT !.additional = <<V(path, TRUE)>>]>>}, {}, 0)
Extras == {Extra(path) : path \in {<<"sys", "run", "z">>, <<"sys", "log">>, <<"data">>, <<"database", "z">>, <<"other", "p">>,
                                      <<"other", "x", "data", "y">>}}
          \cup {M(<<G("store", "errand", <<[J("rel", "plain") EXCEPT !.preset = {<<P(p)>>}],
                                          [J("rel", "plain-x") EXCEPT !.preset = {<<P("y")>>}]>>)>>) : p \in {"y", "x-y"}}
MCNameParts == "plain-x" :> <<"plain", "x">> @@ "x-y" :> <<"x", "y">>

-----------------------------------------------------------------------------
\* What cannot be deployed for other reasons, and placement by other rules.
Rule(stemcells, jobs) == [stemcells |-> stemcells, jobs |-> jobs, groups |-> {}, lifecycle |-> "errand"]
Placed(include, exclude, decode) ==
    [M(<<G("db", "errand", <<J("rel", "pg")>>), G("api", "service", <<>>)>>) EXCEPT
        !.addons = <<[name |-> BoshDNSAddOnName, aliasesDecode |-> decode, jobs |-> <<>>, include |-> {}, exclude |-> {}],
                     [name |-> "observe", aliasesDecode |-> TRUE, jobs |-> <<J("obs", "agent")>>,
                      include |-> include, exclude |-> exclude]>>]
Rules == {{}, {Rule({"ubuntu"}, {})}, {Rule({"sle"}, {})}, {Rule({}, {<<"rel", "pg">>})}}
Others ==
    {Placed(i, e, TRUE) : i, e \in Rules} \cup {Placed({}, {}, FALSE)}
    \cup {M(<<G("x", "errand", <<j>>)>>) : j \in {J("gone", "pg"), J("rel", "gone"), [J("rel", "pg") EXCEPT !.scriptsWork = FALSE]}}
    \cup {M(<<[G("x", "errand", <<J("rel", "pg")>>) EXCEPT !.stemcell = "none"]>>),
          M(<<[G("x", "errand", <<J("rel", "pg")>>) EXCEPT !.instances = 0]>>)}

MCManifests == {Zoned, Disks, Numbered} \cup Spread \cup Links \cup Values \cup Stores \cup Extras \cup Others

\* Four pods with one fault; two faults of the pod with the most to lose.
MCMaxFaults(m) == IF m.groups[1].name = "disks" THEN 2 ELSE 1

MCNameNumbers == "cell-1" :> 1
MCLogDirs == {"pg", "pg/sub"}
MCLogFiles == {"pg/a.log", "pg/sub/b.log"}
MCParentOf == "pg" :> "log" @@ "pg/sub" :> "pg" @@ "pg/a.log" :> "pg" @@ "pg/sub/b.log" :> "pg/sub"
=============================================================================
