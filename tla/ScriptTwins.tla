---------------------------- MODULE ScriptTwins ----------------------------
(***************************************************************************)
(* The straight-line samples of samples/cpp and samples/fb-cpp, one        *)
(* definition per program, in the vocabulary of Scripts.  SQL text, output *)
(* and value conversions are left out; every call that changes state, and  *)
(* every try block and scope, is there in its order.  An fb-cpp twin is    *)
(* written as its OO-API original where the two make the same calls.       *)
(***************************************************************************)
EXTENDS Scripts, SequencesExt

\* A transaction around some operations; the same call several times
OwnTx(t, a, ops) == <<Start(t, a)>> \o ops \o <<Commit(t)>>
Times(n, ops) == FlattenSeq([k \in 1..n |-> ops])
Inserts(t, i, n) == [k \in 1..n |-> Put(t, i, k)]
Renamed(p, name) == [p EXCEPT !.name = name]
Rebodied(p, name, body) == [p EXCEPT !.name = name, !.body = body]
NoRows == [i \in {} |-> ""]

-----------------------------------------------------------------------------
(* security: DROP USER reports a missing user only at commit *)

ExecIgnore(a, o) ==
  Try(<<Start(o.t, a), o, Commit(o.t)>>, <<Quiet(Rollback(o.t))>>)

FbExecIgnore(a, o) ==
  Try(<<Scope({o.t}, <<Start(o.t, a), o, Commit(o.t)>>)>>, <<>>)

SecurityBody(cleanup) ==
     <<AttachOrCreate("admin")>>
  \o OwnTx("t", "admin", <<Mon("t", Self, "me")>>)
  \o cleanup
  \o OwnTx("t", "admin", <<CreateUser("t", "user")>>)
  \o OwnTx("t", "admin", <<Create("t", "role"), Call("t")>>)
  \o <<Start("tra", "admin"), Call("tra"), Mon("tra", All, "admin")>>
  \o <<Scope({"plain"},
        <<AttachAs("plain", {"user"}), Start("t2", "plain"), Mon("t2", Self, "me"),
          Mon("t2", Self, "plain"), Commit("t2")>>),
       Scope({"monitor"},
        <<AttachAs("monitor", {"user"}), Start("t3", "monitor"), Mon("t3", Self, "me"),
          Mon("t3", All, "monitor"), Commit("t3")>>),
       Try(<<Raise>>, <<Note("refused")>>),
       Commit("tra")>>
  \o OwnTx("t", "admin", <<DropUser("t", "user"), Drop("t", "role")>>)

Security ==
  Script("security", {"user", "role"}, NoRows, {},
    [me |-> 1, admin |-> 1, plain |-> 1, monitor |-> 2, refused |-> 1],
    {"user", "role"},
    SecurityBody(<<ExecIgnore("admin", DropUser("t", "user")),
                   ExecIgnore("admin", Drop("t", "role"))>>))

FbSecurity ==
  Rebodied(Security, "fb-cpp security",
    SecurityBody(<<FbExecIgnore("admin", DropUser("t", "user")),
                   FbExecIgnore("admin", Drop("t", "role"))>>))

-----------------------------------------------------------------------------
(* replication: members is 0 (none), 1 (ORDERS), 2 (ALL, auto-enable on) *)

PubState(active, members) ==
  <<Get("tra", "pub", active), Get("tra", "members", members)>>

Replication ==
  Script("replication", {"pub", "members", "orders", "scratch"},
    [members |-> "orders"], {},
    [active0 |-> 0, members0 |-> 0, active1 |-> 1, members1 |-> 0,
     active2 |-> 1, members2 |-> 1, active3 |-> 1, members3 |-> 2],
    {},
       <<AttachOrCreate("db"), Start("tra", "db"),
         Quiet(CreateOrAlter("tra", "members", 0)), Quiet(CreateOrAlter("tra", "pub", 0)),
         Quiet(Drop("tra", "orders")), Quiet(Drop("tra", "scratch")),
         Create("tra", "orders"), Create("tra", "scratch"), CommitRetaining("tra")>>
    \o PubState("active0", "members0")
    \o <<CreateOrAlter("tra", "pub", 1), CommitRetaining("tra")>>
    \o PubState("active1", "members1")
    \o <<CreateOrAlter("tra", "members", 1), CommitRetaining("tra")>>
    \o PubState("active2", "members2")
    \o <<CreateOrAlter("tra", "members", 2), CommitRetaining("tra")>>
    \o PubState("active3", "members3")
    \o <<Call("tra"), Commit("tra")>>)

FbReplication == Renamed(Replication, "fb-cpp replication")

-----------------------------------------------------------------------------
(* ha: the shadow is created, loaded and dropped again *)

\* Mutant: the drop is not committed
HaDropOpen == <<Drop("tra", "shadow")>>
HaDrop == <<Drop("tra", "shadow"), Commit("tra")>>

Ha ==
  Script("ha", {"shadow", "log"}, [log_rows |-> "log"], {},
    [created |-> 1, left |-> 0], {"shadow"},
       <<AttachOrCreate("db"), Start("tra", "db"),
         Quiet(Drop("tra", "shadow")), Quiet(Drop("tra", "log")),
         Create("tra", "log"), CommitRetaining("tra"),
         Create("tra", "shadow"), CommitRetaining("tra"),
         Get("tra", "shadow", "created"),
         Put("tra", "log_rows", 5000), CommitRetaining("tra")>>
    \o HaDrop
    \o OwnTx("t2", "db", <<Get("t2", "shadow", "left")>>))

FbHa == Renamed(Ha, "fb-cpp ha")

-----------------------------------------------------------------------------
(* monitoring: MON$ is frozen by the first query of a transaction *)

Monitoring ==
  Script("monitoring", {"work"}, [work_rows |-> "work"], {},
    [me |-> 1, first |-> 2, scan |-> 10000, point |-> 10000, again |-> 2, fresh |-> 4],
    {},
       <<AttachOrCreate("db"), Start("tra", "db"), Quiet(Drop("tra", "work")),
         Create("tra", "work"), CommitRetaining("tra"),
         Put("tra", "work_rows", 10000), Commit("tra")>>
    \o OwnTx("tra", "db",
         <<Mon("tra", Self, "me"), Mon("tra", Self, "me"), Mon("tra", Work("db"), "first"),
           Get("tra", "work_rows", "scan"), Get("tra", "work_rows", "point"),
           Mon("tra", Work("db"), "again")>>)
    \o OwnTx("tra", "db", <<Mon("tra", Work("db"), "fresh")>>))

FbMonitoring == Renamed(Monitoring, "fb-cpp monitoring")

-----------------------------------------------------------------------------
(* memory_pools: the undo log of one transaction seen from another attachment *)

PoolRow(what, label) == OwnTx("p", "monitor", <<Mon("p", what, label)>>)

MemoryPoolsBody(recreate) ==
     <<AttachOrCreate("worker"), Attach("monitor")>>
  \o OwnTx("t", "worker", <<recreate>>)
  \o OwnTx("t", "worker", <<Put("t", "t_rows", 3000)>>)
  \o PoolRow(Self, "me")
  \o <<Start("t", "worker"), Call("t"), Call("t")>>
  \o PoolRow(Self, "me") \o PoolRow(Self, "me") \o PoolRow(Undo("t"), "before")
  \o <<Put("t", "t_rows", 3001)>>
  \o PoolRow(Self, "me") \o PoolRow(Undo("t"), "after")
  \o <<Rollback("t")>>
  \o PoolRow(Self, "me")

MemoryPools ==
  Script("memory_pools", {"table"}, [t_rows |-> "table"], {},
    [me |-> 1, before |-> 0, after |-> 1], {},
    MemoryPoolsBody(Quiet(Recreate("t", "table"))))

FbMemoryPools ==
  Rebodied(MemoryPools, "fb-cpp memory_pools", MemoryPoolsBody(Recreate("t", "table")))

-----------------------------------------------------------------------------
(* embedded_demo: one process is client and server; then timed attaches *)

AttachMs(attach) == <<Scope({"probe"}, <<attach>>)>>

EmbeddedDemo ==
  Script("embedded_demo", {"gadgets"}, [gadget_rows |-> "gadgets"], {},
    [rows |-> 3], {},
       <<AttachOrCreate("db"), Start("tra", "db"), Quiet(Drop("tra", "gadgets")),
         Create("tra", "gadgets"), CommitRetaining("tra")>>
    \o Inserts("tra", "gadget_rows", 3)
    \o <<CommitRetaining("tra"), Get("tra", "gadget_rows", "rows"), Commit("tra")>>
    \o Times(6, AttachMs(Attach("probe")) \o AttachMs(AttachOther("probe"))))

FbEmbeddedDemo == Renamed(EmbeddedDemo, "fb-cpp embedded_demo")

-----------------------------------------------------------------------------
(* request_lifecycle: the OO-API twin leaves the transaction of a failed
   DROP open until the detach, the fb-cpp twin's destructor ends it *)

SampleStats(label) == OwnTx("s", "db", <<Mon("s", Work("db"), label)>>)

RequestLifecycleBody(cleanup) ==
     <<AttachOrCreate("db"), cleanup>>
  \o SampleStats("s0")
  \o <<Start("tra", "db"), Call("tra"), Create("tra", "trace_demo")>>
  \o SampleStats("s1")
  \o <<Get("tra", "trace_demo", "in_tx"), Commit("tra")>>
  \o OwnTx("s", "db", <<Mon("s", Self, "me")>>)

DropLeftover == <<Start("t", "db"), Drop("t", "trace_demo"), Commit("t")>>

RequestLifecycle ==
  Script("request_lifecycle", {"trace_demo"}, NoRows, {},
    [s0 |-> 0, s1 |-> 1, in_tx |-> 1, me |-> 1], {},
    RequestLifecycleBody(Try(DropLeftover, <<>>)))

FbRequestLifecycle ==
  Rebodied(RequestLifecycle, "fb-cpp request_lifecycle",
    RequestLifecycleBody(Try(<<Scope({"t"}, DropLeftover)>>, <<>>)))

-----------------------------------------------------------------------------
(* psql: the procedures of an earlier run use emp, so they are reduced to
   stubs (version 1) before RECREATE TABLE and restored (version 2) after *)

\* Mutant: straight to RECREATE TABLE
PsqlNoStubs == <<>>
PsqlStubs ==
  <<CreateOrAlter("tra", "hire", 1), CreateOrAlter("tra", "raises", 1),
    CommitRetaining("tra")>>

Hire(n) == PutAll("tra", [emp_rows |-> n, audit_rows |-> n])    \* and its trigger

Psql ==
  Script("psql", {"hire", "raises", "emp", "audit_log", "low_salary", "emp_bi"},
    [emp_rows |-> "emp", audit_rows |-> "audit_log", emp_bi |-> "emp"],
    {Uses("hire", 2, "emp"), Uses("hire", 2, "low_salary"), Uses("raises", 2, "emp"),
     Uses("emp_bi", 1, "emp"), Uses("emp_bi", 1, "audit_log")},
    [audit |-> 2, raises |-> 2, low_salary |-> 1], {},
    <<AttachOrCreate("db"), Start("tra", "db")>> \o PsqlStubs \o
    <<Recreate("tra", "emp"), Recreate("tra", "audit_log"),
      CreateOrAlter("tra", "low_salary", 1), CommitRetaining("tra"),
      CreateOrAlter("tra", "hire", 2), CreateOrAlter("tra", "emp_bi", 1),
      CreateOrAlter("tra", "raises", 2), CommitRetaining("tra"),
      Call("tra"), Hire(1), Call("tra"), Hire(2),
      Get("tra", "audit_rows", "audit"), Get("tra", "emp_rows", "raises"),
      Try(<<Call("tra"), Raise>>, <<Note("low_salary")>>),
      Commit("tra")>>)

FbPsql == Renamed(Psql, "fb-cpp psql")

-----------------------------------------------------------------------------
(* profiler: FINISH_SESSION flushes in an autonomous transaction; prof stands
   for the rows of this session, of which a new session has none *)

ProfReads == <<Get("tra", "prof", "sources"), Get("tra", "prof", "lines")>>
\* Mutant: the report is read in the transaction that was profiled
ProfilerReportStale == ProfReads \o <<Commit("tra")>>
ProfilerReport == <<Commit("tra")>> \o OwnTx("tra", "db", ProfReads)

Profiler ==
  Script("profiler", {"hotspot", "nums", "plugin"},
    [num_rows |-> "nums", prof |-> "plugin"], {Uses("hotspot", 1, "nums")},
    [join |-> 5000, hotspot |-> 5000, sources |-> 1, lines |-> 1], {},
       <<AttachOrCreate("db"), Start("tra", "db"),
         Quiet(Drop("tra", "hotspot")), Quiet(Drop("tra", "nums")),
         Create("tra", "nums"), CommitRetaining("tra"),
         Put("tra", "num_rows", 5000), Create("tra", "hotspot"), CommitRetaining("tra"),
         PutAlone([plugin |-> 1, prof |-> 0]),
         Get("tra", "num_rows", "join"), Get("tra", "num_rows", "hotspot"),
         PutAlone([prof |-> 1])>>
    \o ProfilerReport)

FbProfiler == Renamed(Profiler, "fb-cpp profiler")

-----------------------------------------------------------------------------
(* schemas: name resolution is the engine's; what is modelled is the order in
   which dependent objects are dropped and built *)

Schemas ==
  Script("schemas", {"app", "public_customers", "app_customers", "which_one"},
    [public_rows |-> "public_customers", app_rows |-> "app_customers"],
    {Uses("app_customers", 1, "app"), Uses("which_one", 1, "app"),
     Uses("which_one", 1, "app_customers")},
    [public |-> 1, app |-> 2, direct |-> 1, stored |-> 2], {},
       <<AttachOrCreate("db"), Start("ddl", "db"),
         Quiet(Drop("ddl", "which_one")), Quiet(Drop("ddl", "public_customers")),
         Quiet(Drop("ddl", "app_customers")), Quiet(Drop("ddl", "app")),
         Create("ddl", "app"), Create("ddl", "public_customers"),
         Create("ddl", "app_customers"), Commit("ddl")>>
    \o OwnTx("tra", "db",
         <<Put("tra", "public_rows", 1), Put("tra", "app_rows", 2), Call("tra"), Call("tra"),
           Get("tra", "public_rows", "public"), Call("tra"), Get("tra", "app_rows", "app"),
           Call("tra"), Call("tra"), Call("tra"), Create("tra", "which_one")>>)
    \o OwnTx("tra", "db",
         <<Call("tra"), Get("tra", "public_rows", "direct"),
           Need("tra", "which_one", 1), Get("tra", "app_rows", "stored"),
           Call("tra"), Call("tra")>>))

FbSchemas == Renamed(Schemas, "fb-cpp schemas")

-----------------------------------------------------------------------------
(* extensibility, migration, indexes, plans: rebuild, then look *)

Extensibility ==
  Script("extensibility", {"gen_rows", "sum_args"}, NoRows, {},
    [gen |-> 1, sum |-> 1], {},
    <<AttachOrCreate("db"), Start("tra", "db"),
      Recreate("tra", "gen_rows"), Recreate("tra", "sum_args"), CommitRetaining("tra"),
      Get("tra", "gen_rows", "gen"), Get("tra", "sum_args", "sum"),
      Call("tra"), Call("tra"), Commit("tra")>>)

FbExtensibility == Renamed(Extensibility, "fb-cpp extensibility")

Migration ==
  Script("migration", {"type_probe"}, [probe_rows |-> "type_probe"], {},
    [text |-> 1, uuid |-> 1], {},
    <<AttachOrCreate("db"), Start("tra", "db"), Quiet(Drop("tra", "type_probe")),
      Create("tra", "type_probe"), CommitRetaining("tra"),
      Put("tra", "probe_rows", 1), CommitRetaining("tra"), Call("tra"),
      Get("tra", "probe_rows", "text"), Get("tra", "probe_rows", "uuid"), Commit("tra")>>)

FbMigration == Renamed(Migration, "fb-cpp migration")

DocIndexes == <<"doc_id_desc", "doc_upper_title", "doc_active", "doc_num">>
IndexesBody ==
     <<AttachOrCreate("db")>>
  \o OwnTx("tra", "db", <<Recreate("tra", "doc")>>)
  \o OwnTx("tra", "db", <<Put("tra", "doc_rows", 3000)>>)
  \o OwnTx("tra", "db", [k \in DOMAIN DocIndexes |-> Create("tra", DocIndexes[k])])
  \o OwnTx("tra", "db", Times(5, <<Call("tra")>>) \o <<Get("tra", "doc_rows", "rows")>>)

Indexes ==
  Script("indexes", {"doc"} \cup ToSet(DocIndexes),
    [i \in {"doc_rows"} \cup ToSet(DocIndexes) |-> "doc"],
    {Uses(i, 1, "doc") : i \in ToSet(DocIndexes)}, [rows |-> 3000], {},
    IndexesBody \o <<Detach("db")>>)

FbIndexes == Rebodied(Indexes, "fb-cpp indexes", IndexesBody)

\* The plan flips because the index exists, not because the rows changed
Plans ==
  Script("plans", {"dept", "emp", "emp_dept"},
    [dept_rows |-> "dept", emp_rows |-> "emp", emp_dept |-> "emp"],
    {Uses("emp_dept", 1, "emp")}, [before |-> 0, after |-> 1], {},
       <<AttachOrCreate("db"), Start("tra", "db"),
         Recreate("tra", "dept"), Recreate("tra", "emp"), CommitRetaining("tra"),
         PutAll("tra", [dept_rows |-> 20, emp_rows |-> 2000]), Commit("tra")>>
    \o OwnTx("tra", "db", <<Get("tra", "emp_dept", "before"), Create("tra", "emp_dept")>>)
    \o OwnTx("tra", "db", <<Get("tra", "emp_dept", "after")>> \o Times(3, <<Call("tra")>>)))

FbPlans == Renamed(Plans, "fb-cpp plans")

-----------------------------------------------------------------------------
(* types: the domain's dependency check needs the table drop committed, so
   each drop has its own transaction *)

DropAlone(o) ==
  <<Start("t", "db"), Try(<<o, Commit("t")>>, <<Quiet(Rollback("t"))>>)>>

FbDropAlone(o) ==
  <<Scope({"t"}, <<Start("t", "db"), Try(<<o, Commit("t")>>, <<Rollback("t")>>)>>)>>

TypesBody(drops) ==
     <<AttachOrCreate("db")>> \o drops
  \o OwnTx("ddl", "db", <<Create("ddl", "d_email"), Create("ddl", "showcase")>>)
  \o OwnTx("tra", "db",
       <<Put("tra", "show_rows", 1), Try(<<Raise>>, <<Note("rejected")>>),
         Call("tra"), Get("tra", "show_rows", "rows")>>)

Types ==
  Script("types", {"d_email", "showcase"}, [show_rows |-> "showcase"],
    {Uses("showcase", 1, "d_email")}, [rejected |-> 1, rows |-> 1], {},
    TypesBody(DropAlone(Drop("t", "showcase")) \o DropAlone(DropUnused("t", "d_email"))))

FbTypes ==
  Rebodied(Types, "fb-cpp types",
    TypesBody(FbDropAlone(Drop("t", "showcase")) \o FbDropAlone(DropUnused("t", "d_email"))))

-----------------------------------------------------------------------------
(* catalog: drops the whole database first; a table gains a format per shape *)

CatalogBody(renew) ==
     renew
  \o OwnTx("tra", "db", <<Call("tra"), Call("tra"), Get("tra", "t1", "formats")>>)
  \o OwnTx("tra", "db", <<Create("tra", "t1")>>)
  \o OwnTx("tra", "db", <<Alter("tra", "t1", 2)>>)
  \o OwnTx("tra", "db", <<Get("tra", "t1", "shapes"), Call("tra")>>)

Catalog ==
  Script("catalog", {"t1"}, NoRows, {}, [formats |-> 0, shapes |-> 2], {},
    CatalogBody(<<Scope({"old"}, <<Quiet(Attach("old")),
                                   IfAttached("old", <<DropDatabase("old")>>)>>),
                  AttachOrCreate("db")>>)
    \o <<Detach("db")>>)

FbCatalog ==
  Rebodied(Catalog, "fb-cpp catalog",
    CatalogBody(<<Try(<<Scope({"old"}, <<Attach("old"), DropDatabase("old")>>)>>, <<>>),
                  Make("db")>>))

-----------------------------------------------------------------------------
(* gc_sweep: row is 0 when deleted, val + 1 otherwise *)

ShowStats == OwnTx("s", "writer", <<Mon("s", Self, "me")>>)

\* Mutant: the transactions of the loop stay open
GcUpdatesOpen == FlattenSeq([i \in 1..12 |-> <<Start("t", "writer"), Put("t", "row", i + 1)>>])
GcUpdates == FlattenSeq([i \in 1..12 |-> OwnTx("t", "writer", <<Put("t", "row", i + 1)>>)])

GcSweepBody(prepare) ==
     <<AttachOrCreate("writer"), Attach("pinner")>>
  \o OwnTx("ddl", "writer", <<Quiet(Drop("ddl", "gctest"))>>)
  \o OwnTx("ddl", "writer", <<Create("ddl", "gctest")>>)
  \o OwnTx("ddl", "writer", <<Put("ddl", "row", 1)>>)
  \o <<Start("snap", "pinner"), Get("snap", "row", "pinned")>> \o ShowStats
  \o prepare
  \o GcUpdates
  \o ShowStats \o <<Get("snap", "row", "still"), Commit("snap")>>
  \o OwnTx("t", "writer", <<Get("t", "row", "reader")>>) \o ShowStats
  \o OwnTx("t", "writer", <<Put("t", "row", 0)>>)
  \o OwnTx("t", "writer", <<Get("t", "row", "deleted")>>) \o ShowStats \o ShowStats
  \o <<Start("t", "writer"), Put("t", "row", 1), Rollback("t")>> \o ShowStats

GcSweep ==
  Script("gc_sweep", {"gctest"}, [row |-> "gctest"], {},
    [pinned |-> 1, me |-> 1, still |-> 1, reader |-> 13, deleted |-> 0], {},
    GcSweepBody(<<>>))

FbGcSweep ==
  Rebodied(GcSweep, "fb-cpp gc_sweep", GcSweepBody(OwnTx("prep", "writer", <<Call("prep")>>)))

-----------------------------------------------------------------------------
(* metadata_cache: the version of t counts its columns *)

TryQuery(ops, shown, error) == Try(ops \o <<Note(shown)>>, <<Note(error)>>)

MetadataCacheBody ==
     <<AttachOrCreate("A"), Attach("B")>>
  \o OwnTx("t", "A", <<Recreate("t", "table")>>)
  \o OwnTx("t", "A", <<Put("t", "t_rows", 1)>>)
  \o <<Start("aDdl", "A"), Alter("aDdl", "table", 2),
       TryQuery(<<Need("aDdl", "table", 2)>>, "a_sees_e", "a_error")>>
  \o OwnTx("bTra", "B", <<TryQuery(<<Need("bTra", "table", 2)>>, "b_sees_e", "b_error")>>)
  \o <<Start("bTra", "B"), TryQuery(<<Get("bTra", "t_rows", "count")>>, "b_counts", "b_fails"),
       Commit("aDdl")>>
  \o OwnTx("t", "A", <<Alter("t", "table", 3)>>)
  \o <<TryQuery(<<Need("bTra", "table", 3)>>, "b_sees_d", "b_misses_d"), Commit("bTra"),
       Start("aDdl", "A"), Alter("aDdl", "table", 4), Start("bTra", "B"),
       Try(<<Alter("bTra", "table", 4), Note("b_alters")>>, <<Note("b_collides")>>),
       Rollback("bTra"), Rollback("aDdl")>>
  \o OwnTx("t", "A", <<Get("t", "table", "formats"), Get("t", "t_rows", "rows")>>)

MetadataCache ==
  Script("metadata_cache", {"table"}, [t_rows |-> "table"], {},
    [a_sees_e |-> 1, b_error |-> 1, count |-> 1, b_counts |-> 1, b_sees_d |-> 1,
     b_collides |-> 1, formats |-> 3, rows |-> 1], {},
    MetadataCacheBody \o <<Detach("A"), Detach("B")>>)

FbMetadataCache == Rebodied(MetadataCache, "fb-cpp metadata_cache", MetadataCacheBody)

-----------------------------------------------------------------------------
(* stmt_cache: prepares of one statement, the last ones between two DDLs; the
   sample times them, and whether the cache was hit is not modelled *)

PrepareOnce == Need("tra", "t", 1)
PrepareAll == Times(2, <<PrepareOnce>>)

PrepareAfterDdl ==
  Times(2, OwnTx("ddl", "db", <<Recreate("ddl", "unrelated")>>) \o <<PrepareOnce>>)

StmtCache ==
  Script("stmt_cache", {"t", "unrelated"}, [t_rows |-> "t"], {},
    [identical |-> 1, spaces |-> 1, literal |-> 1, ddl |-> 1], {},
       <<AttachOrCreate("db"), Start("setup", "db"), Recreate("setup", "t"),
         CommitRetaining("setup"), Put("setup", "t_rows", 50), Commit("setup"),
         Start("tra", "db"), PrepareOnce>>
    \o PrepareAll \o <<Note("identical")>> \o PrepareAll \o <<Note("spaces")>>
    \o PrepareAll \o <<Note("literal")>> \o PrepareAfterDdl \o <<Note("ddl"), Commit("tra")>>)

FbStmtCache == Renamed(StmtCache, "fb-cpp stmt_cache")

-----------------------------------------------------------------------------
(* blobs, intl, windows *)

Calls(n) == Times(n, <<Call("tra")>>)
RecreateDocs == <<AttachOrCreate("db")>> \o OwnTx("t", "db", <<Recreate("t", "docs")>>)

\* create, three segments, close; store; read back by its id, segment by segment
Blobs ==
  Script("blobs", {"docs"}, [doc_rows |-> "docs"], {}, [stored |-> 1, appended |-> 2], {},
       RecreateDocs \o <<Start("tra", "db")>>
    \o Calls(6) \o <<Put("tra", "doc_rows", 1), Get("tra", "doc_rows", "stored")>>
    \o Calls(8) \o <<Put("tra", "doc_rows", 2), Get("tra", "doc_rows", "appended"),
                      Commit("tra"), Detach("db")>>)

\* the same, and once more as a stream blob
FbBlobs ==
  [Rebodied(Blobs, "fb-cpp blobs",
       RecreateDocs \o <<Start("tra", "db")>>
    \o Calls(6) \o <<Put("tra", "doc_rows", 1), Get("tra", "doc_rows", "stored")>>
    \o Calls(8) \o Calls(6)
    \o <<Put("tra", "doc_rows", 2), Get("tra", "doc_rows", "stream")>> \o Calls(6)
    \o <<Put("tra", "doc_rows", 3), Get("tra", "doc_rows", "appended"), Commit("tra")>>)
   EXCEPT !.claims = [stored |-> 1, stream |-> 2, appended |-> 3]]

Intl ==
  Script("intl", {"table"}, [t_rows |-> "table"], {}, [utf8 |-> 3, none |-> 3], {},
       <<AttachOrCreate("db"), Start("ddl", "db"), Quiet(Drop("ddl", "table")),
         Create("ddl", "table"), Commit("ddl")>>
    \o OwnTx("tra", "db", Inserts("tra", "t_rows", 3) \o Calls(5))
    \o <<Attach("none")>>
    \o OwnTx("t1", "db", <<Get("t1", "t_rows", "utf8")>>)
    \o OwnTx("t2", "none", <<Get("t2", "t_rows", "none")>>))

FbIntl == Renamed(Intl, "fb-cpp intl")

Windows ==
  Script("windows", {"sales"}, [sale_rows |-> "sales"], {}, [rows |-> 6], {},
       <<AttachOrCreate("db"), Start("ddl", "db"), Quiet(Drop("ddl", "sales")),
         Create("ddl", "sales"), Commit("ddl")>>
    \o OwnTx("tra", "db", Inserts("tra", "sale_rows", 6)
                          \o <<Get("tra", "sale_rows", "rows")>> \o Calls(4)))

FbWindows == Renamed(Windows, "fb-cpp windows")
=============================================================================
