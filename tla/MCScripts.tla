----------------------------- MODULE MCScripts -----------------------------
(* The straight-line samples, for TLC. *)
EXTENDS ScriptTwins

CppPrograms ==
  {Security, Replication, Ha, Monitoring, MemoryPools, EmbeddedDemo, RequestLifecycle,
   Psql, Profiler, Schemas, Extensibility, Migration, Indexes, Plans, Types, Catalog,
   GcSweep, MetadataCache, Blobs, Intl, Windows, StmtCache}

FbCppPrograms ==
  {FbSecurity, FbReplication, FbHa, FbMonitoring, FbMemoryPools, FbEmbeddedDemo,
   FbRequestLifecycle, FbPsql, FbProfiler, FbSchemas, FbExtensibility, FbMigration,
   FbIndexes, FbPlans, FbTypes, FbCatalog, FbGcSweep, FbMetadataCache, FbBlobs,
   FbIntl, FbWindows, FbStmtCache}

AllPrograms == CppPrograms \cup FbCppPrograms
=============================================================================
