--------------------------- MODULE MCAdapterProvision ---------------------------
(* The plans of every adapter, one set of plans per engine. *)
EXTENDS AdapterProvision, TLC

Aerospike == INSTANCE AdapterAerospike
Arangodb == INSTANCE AdapterArangodb
Clickhouse == INSTANCE AdapterClickhouse
Couchdb == INSTANCE AdapterCouchdb
Etcd == INSTANCE AdapterEtcd
Influxdb == INSTANCE AdapterInfluxdb
Mongodb == INSTANCE AdapterMongodb
Mssql == INSTANCE AdapterMssql
Neo4j == INSTANCE AdapterNeo4j
Oracle == INSTANCE AdapterOracle
Postgres == INSTANCE AdapterPostgres
File == INSTANCE AdaptersFile
Metrics == INSTANCE AdaptersMetrics
MysqlFamily == INSTANCE AdaptersMysql
RedisFamily == INSTANCE AdaptersRedis
Search == INSTANCE AdaptersSearch
TimeSeries == INSTANCE AdaptersTimeSeries
Vector == INSTANCE AdaptersVector
WideColumn == INSTANCE AdaptersWideColumn

\* A plan is named by its engine, its source kind and its options.
Named(adapter, variants) == {variants[v] @@ [name |-> <<adapter, v[1], v[2]>>] : v \in DOMAIN variants}

\* A backup the adapter has nothing against under every provider and at every stage of
\* the job that writes it; each fact on its own in a finished artifact; and each fact
\* together with the gaps of its test, so that it is there and goes unseen.
MCDrills(p) ==
  [facts : {{}}, ver : Versions, provider : Providers]
  \cup [facts : {{f} : f \in Facts(p)} \cup {({t.fact} \cup t.gaps) \cap Facts(p) : t \in TestsOf(p.steps)},
         ver : {Whole}, provider : {"other"}]

MCPlans ==
  Named("aerospike", Aerospike!plans) \cup Named("arangodb", Arangodb!plans)
  \cup Named("cassandra", WideColumn!cassandra_plans) \cup Named("chroma", Vector!chroma_plans)
  \cup Named("clickhouse", Clickhouse!plans) \cup Named("couchdb", Couchdb!plans)
  \cup Named("duckdb", File!duckdb_plans) \cup Named("elasticsearch", Search!elasticsearch_plans)
  \cup Named("etcd", Etcd!plans) \cup Named("firebird", File!firebird_plans)
  \cup Named("h2", File!h2_plans) \cup Named("influxdb", Influxdb!plans)
  \cup Named("iotdb", TimeSeries!iotdb_plans) \cup Named("mariadb", MysqlFamily!mariadb_plans)
  \cup Named("mongodb", Mongodb!plans) \cup Named("mssql", Mssql!plans)
  \cup Named("mysql", MysqlFamily!mysql_plans) \cup Named("neo4j", Neo4j!plans)
  \cup Named("opensearch", Search!opensearch_plans) \cup Named("oracle", Oracle!plans)
  \cup Named("postgres", Postgres!plans) \cup Named("prometheus", Metrics!prometheus_plans)
  \cup Named("qdrant", Vector!qdrant_plans) \cup Named("questdb", TimeSeries!questdb_plans)
  \cup Named("redis", RedisFamily!redis_plans) \cup Named("scylladb", WideColumn!scylladb_plans)
  \cup Named("solr", Search!solr_plans) \cup Named("sqlite", File!sqlite_plans)
  \cup Named("tdengine", TimeSeries!tdengine_plans) \cup Named("valkey", RedisFamily!valkey_plans)
  \cup Named("victoriametrics", Metrics!victoriametrics_plans) \cup Named("weaviate", Vector!weaviate_plans)

MCElasticsearch == Named("elasticsearch", Search!elasticsearch_plans)

\* A provision that is answered with success has brought data to where the engine finds
\* it: it is not a success that nothing was restored ("a repository listing no snapshots
\* | source_corrupt", adapters/elasticsearch/README.md; "never report success past
\* ignored errors", docs/adapter-protocol.md section 5).
NoFalseGreen == answer = "ok" => loaded
=================================================================================
