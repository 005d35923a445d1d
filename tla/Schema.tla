------------------------------- MODULE Schema -------------------------------
(***************************************************************************)
(* The database schema: what the models declare (server/app/models) and    *)
(* what the revisions of server/alembic/versions make of an empty          *)
(* database, with rows in it.  The server runs on the migrated schema, the *)
(* tests on one created from the models.                                   *)
(*                                                                         *)
(* A table is its primary key, the columns that must and that may be       *)
(* given, those with a unique index and the foreign keys with what they do *)
(* on deletion.  Types, defaults (they are the models', not the            *)
(* database's) and plain indexes are left out.                             *)
(***************************************************************************)
EXTENDS Naturals, Sequences, SequencesExt

VARIABLES
  schema,  \* the tables there are
  rev,     \* alembic_version: how many revisions are applied
  rows     \* the tables that hold rows

vars == <<schema, rev, rows>>

Table(key, needs, may, unique, refs) ==
  [key |-> key, needs |-> needs, may |-> may, unique |-> unique, refs |-> refs]

To(column, table, ondelete) == [column |-> column, table |-> table, ondelete |-> ondelete]

OfDeviceRestricts == {To("device_id", "devices", "NO ACTION")}

Owner == {To("user_id", "users", "CASCADE")}
OfAgent == {To("agent_id", "agents", "CASCADE")}
OfDevice == {To("device_id", "devices", "CASCADE")}

OfNotification == {To("notification_id", "notifications", "CASCADE")}

-----------------------------------------------------------------------------
(* The models *)

Timestamps == {"created_at", "updated_at"}

UserModels ==
  [users |-> Table("id", {"email", "role"} \cup Timestamps, {}, {"email"}, {}),
   user_credentials |-> Table("user_id", {"password_hash"}, {}, {}, Owner),
   refresh_tokens |-> Table("id", {"user_id", "token_hash", "expires_at", "revoked", "created_at"},
                            {}, {"token_hash"}, Owner),
   user_preferences |-> Table("user_id", {"manual_presence", "quiet_hours", "data"} \cup Timestamps,
                              {}, {}, Owner)]

AgentModels ==
  [agents |-> Table("id", {"user_id", "name"} \cup Timestamps, {}, {}, Owner),
   agent_tokens |-> Table("id", {"agent_id", "token_hash", "scopes", "revoked", "created_at"},
                          {}, {"token_hash"}, OfAgent),
   agent_webhooks |-> Table("id", {"agent_id", "url", "secret", "events", "created_at"},
                            {}, {}, OfAgent)]

DeviceModels ==
  [devices |-> Table("id", {"user_id", "platform", "capabilities"} \cup Timestamps,
                     {"detected_name", "display_name", "architecture", "last_seen_at",
                      "push_endpoint"}, {}, Owner),
   device_credentials |-> Table("device_id", {"token_hash", "created_at"}, {"public_key"},
                                {"token_hash"}, OfDevice),
   device_preferences |-> Table("device_id", {"voice_policy", "data"} \cup Timestamps, {}, {},
                                OfDevice),
   pairing_tokens |-> Table("id", {"user_id", "token_hash", "code", "expires_at", "used",
                                   "created_at"}, {"device_id"}, {"token_hash"}, Owner)]

NotificationModels ==
  [notifications |->
     Table("id", {"user_id", "type", "priority", "presentation", "routing_mode", "routing", "voice",
                  "playback", "actions", "status", "expires_at"} \cup Timestamps,
           {"agent_id", "title", "message", "correlation_id", "thread_id", "group_key", "read_at",
            "resolved_at", "resolved_action_id", "responded_by_device_id"},
           {}, Owner \cup {To("agent_id", "agents", "SET NULL")}),
   notification_deliveries |->
     Table("id", {"notification_id", "device_id", "status", "order_index"} \cup Timestamps,
           {"sent_at", "delivered_at", "displayed_at", "played_at", "opened_at", "failed_at"},
           {}, OfNotification \cup OfDevice),
   notification_responses |->
     Table("id", {"notification_id", "action_id", "created_at"}, {"device_id", "value"}, {},
           OfNotification)]

AudioModel ==
  [audio_assets |-> Table("id", {"user_id", "source", "content_type", "size", "storage_key",
                                 "created_at"}, {"provider"}, {}, Owner)]

SettingModel == [app_settings |-> Table("key", {"value", "updated_at"}, {}, {}, {})]

Models ==
  UserModels @@ AgentModels @@ DeviceModels @@ NotificationModels @@ AudioModel @@ SettingModel

-----------------------------------------------------------------------------
(* The revisions *)

Create(table, def) == [op |-> "create", table |-> table, def |-> def]
Drop(table) == [op |-> "drop", table |-> table]
Add(table, column, nullable) ==
  [op |-> "add", table |-> table, column |-> column, nullable |-> nullable]
DropColumn(table, column) == [op |-> "drop_column", table |-> table, column |-> column]

Phase1Up ==
  <<Create("users", Table("id", {"email", "role", "created_at", "updated_at"}, {}, {"email"}, {})),
    Create("agents", Table("id", {"user_id", "name", "created_at", "updated_at"}, {}, {}, Owner)),
    Create("devices",
      Table("id", {"user_id", "platform", "capabilities", "created_at", "updated_at"},
            {"detected_name", "display_name", "architecture", "last_seen_at"}, {}, Owner)),
    Create("pairing_tokens",
      Table("id", {"user_id", "token_hash", "code", "expires_at", "used", "created_at"},
            {"device_id"}, {"token_hash"}, Owner)),
    Create("refresh_tokens",
      Table("id", {"user_id", "token_hash", "expires_at", "revoked", "created_at"},
            {}, {"token_hash"}, Owner)),
    Create("user_credentials", Table("user_id", {"password_hash"}, {}, {}, Owner)),
    Create("user_preferences",
      Table("user_id", {"manual_presence", "quiet_hours", "data", "created_at", "updated_at"},
            {}, {}, Owner)),
    Create("agent_tokens",
      Table("id", {"agent_id", "token_hash", "scopes", "revoked", "created_at"},
            {}, {"token_hash"}, OfAgent)),
    Create("agent_webhooks",
      Table("id", {"agent_id", "url", "secret", "events", "created_at"}, {}, {}, OfAgent)),
    Create("device_credentials",
      Table("device_id", {"token_hash", "created_at"}, {"public_key"}, {"token_hash"}, OfDevice)),
    Create("device_preferences",
      Table("device_id", {"voice_policy", "data", "created_at", "updated_at"}, {}, {}, OfDevice))>>

Phase1Down ==
  <<Drop("device_preferences"), Drop("device_credentials"), Drop("agent_webhooks"),
    Drop("agent_tokens"), Drop("user_preferences"), Drop("user_credentials"),
    Drop("refresh_tokens"), Drop("pairing_tokens"), Drop("devices"), Drop("agents"), Drop("users")>>

Phase2Up ==
  <<Create("notifications",
      Table("id", {"user_id", "type", "priority", "presentation", "routing_mode", "routing", "voice",
                   "playback", "actions", "status", "expires_at", "created_at", "updated_at"},
            {"agent_id", "title", "message", "correlation_id", "thread_id", "group_key", "read_at"},
            {}, Owner \cup {To("agent_id", "agents", "SET NULL")})),
    Create("notification_deliveries",
      Table("id", {"notification_id", "device_id", "status", "order_index", "created_at",
                   "updated_at"},
            {"sent_at", "delivered_at", "displayed_at", "played_at", "opened_at", "failed_at"},
            {}, OfNotification \cup OfDevice))>>

Phase2Down == <<Drop("notification_deliveries"), Drop("notifications")>>

Phase5Up ==
  <<Create("audio_assets",
      Table("id", {"user_id", "source", "content_type", "size", "storage_key", "created_at"},
            {"provider"}, {}, Owner))>>

Phase5Down == <<Drop("audio_assets")>>

Phase7Up ==
  <<Create("notification_responses",
      Table("id", {"notification_id", "action_id", "created_at"}, {"device_id", "value"}, {},
            OfNotification)),
    Add("notifications", "resolved_at", TRUE), Add("notifications", "resolved_action_id", TRUE),
    Add("notifications", "responded_by_device_id", TRUE)>>

Phase7DownForgets ==
  <<DropColumn("notifications", "responded_by_device_id"),
    DropColumn("notifications", "resolved_action_id"), Drop("notification_responses")>>

Phase7Down ==
  <<DropColumn("notifications", "responded_by_device_id"),
    DropColumn("notifications", "resolved_action_id"), DropColumn("notifications", "resolved_at"),
    Drop("notification_responses")>>

Phase8Up == <<Create("app_settings", Table("key", {"value", "updated_at"}, {}, {}, {}))>>

Phase8Down == <<Drop("app_settings")>>

EndpointUpForgotten == <<>>

EndpointUp == <<Add("devices", "push_endpoint", TRUE)>>

EndpointDown == <<DropColumn("devices", "push_endpoint")>>

(* The chain of down_revision, from the empty database. *)
Upgrades == <<Phase1Up, Phase2Up, Phase5Up, Phase7Up, Phase8Up, EndpointUp>>
Downgrades == <<Phase1Down, Phase2Down, Phase5Down, Phase7Down, Phase8Down, EndpointDown>>

Latest == Len(Upgrades)

-----------------------------------------------------------------------------
(* What the database does with an operation on s, a schema with the tables *)
(* that hold rows in it.                                                   *)

Referrers(tables, t) == {u \in DOMAIN tables : \E r \in tables[u].refs : r.table = t}

Possible(s, o) ==
  CASE o.op = "create" -> /\ o.table \notin DOMAIN s.schema
                          /\ \A r \in o.def.refs : r.table \in DOMAIN s.schema
    [] o.op = "drop" -> o.table \in DOMAIN s.schema /\ Referrers(s.schema, o.table) = {}
    [] o.op = "add" -> /\ o.column \notin s.schema[o.table].may
                       /\ o.nullable \/ o.table \notin s.rows
    [] OTHER -> o.column \in s.schema[o.table].may

Applied(s, o) ==
  CASE o.op = "create" -> [s EXCEPT !.schema = (o.table :> o.def) @@ @]
    [] o.op = "drop" -> [s EXCEPT !.schema = Restrict(@, DOMAIN @ \ {o.table}),
                                  !.rows = @ \ {o.table}]
    [] o.op = "add" -> IF o.nullable
                       THEN [s EXCEPT !.schema[o.table].may = @ \cup {o.column}]
                       ELSE [s EXCEPT !.schema[o.table].needs = @ \cup {o.column}]
    [] OTHER -> [s EXCEPT !.schema[o.table].may = @ \ {o.column}]

(* One transaction: the operation that fails undoes all.                   *)
Migrated(ops) ==
  FoldLeft(LAMBDA s, o : IF s.ok /\ Possible(s, o) THEN Applied(s, o) ELSE [s EXCEPT !.ok = FALSE],
           [schema |-> schema, rows |-> rows, ok |-> TRUE], ops)

UpTo(n) == FlattenSeq(SubSeq(Upgrades, rev + 1, n))
DownTo(n) == FlattenSeq(Reverse(SubSeq(Downgrades, n + 1, rev)))

Init == schema = [t \in {} |-> {}] /\ rev = 0 /\ rows = {}

Migrate(ops, n) ==
  /\ Migrated(ops).ok
  /\ schema' = Migrated(ops).schema
  /\ rows' = Migrated(ops).rows
  /\ rev' = n

Upgrade == \E n \in (rev + 1)..Latest : Migrate(UpTo(n), n)

Downgrade == \E n \in 0..(rev - 1) : Migrate(DownTo(n), n)

(* A server of that time stores a first row: what it refers to is there. *)
Store(t) ==
  /\ t \in DOMAIN schema \ rows
  /\ \A r \in schema[t].refs : r.table \in rows \/ r.column \in schema[t].may
  /\ rows' = rows \cup {t}
  /\ UNCHANGED <<schema, rev>>

Followers(ts) ==
  {u \in DOMAIN schema : \E r \in schema[u].refs : r.ondelete = "CASCADE" /\ r.table \in ts}

(* The tables that lose rows with those of t. *)
Cascaded(t) ==
  FoldSet(LAMBDA u, ts : ts \cup Followers(ts), {t}, DOMAIN schema)

(* A row that must not lose what it refers to would refuse the deletion. *)
Refused(t) ==
  \E u \in rows : \E r \in schema[u].refs :
    r.table \in Cascaded(t) /\ r.ondelete \notin {"CASCADE", "SET NULL"}

(* The rows of t are deleted: users, agents, devices.                      *)
Delete(t) ==
  /\ t \in rows /\ ~Refused(t)
  /\ rows' = rows \ Cascaded(t)
  /\ UNCHANGED <<schema, rev>>

Deletable == {"users", "agents", "devices"}

Next ==
  \/ Upgrade \/ Downgrade
  \/ \E t \in DOMAIN schema : Store(t)
  \/ \E t \in Deletable \cap DOMAIN schema : Delete(t)

Spec == Init /\ [][Next]_vars

-----------------------------------------------------------------------------
(* Invariants *)

(* The migrated schema is the one the models declare: what the tests run   *)
(* on is what the server runs on, also after downgrades and upgrades.  And *)
(* whatever rows there are, every migration goes through, up and down.     *)
HeadIsModels == rev = Latest => schema = Models

MigrationsGoThrough ==
  /\ \A n \in (rev + 1)..Latest : Migrated(UpTo(n)).ok
  /\ \A n \in 0..(rev - 1) : Migrated(DownTo(n)).ok

MigrationsAreSound == HeadIsModels /\ MigrationsGoThrough

(* A user, an agent or a device can be deleted at any time, whatever       *)
(* refers to it: nothing refuses, a row that stays refers to nothing that  *)
(* is gone, and of a user nothing but the settings of the server stays.    *)
DeletionIsComplete ==
  \A t \in Deletable \cap rows :
    /\ ~Refused(t)
    /\ \A u \in rows \ Cascaded(t) : \A r \in schema[u].refs :
         r.table \in Cascaded(t) => r.column \in schema[u].may
    /\ t = "users" => rows \ Cascaded(t) \subseteq {"app_settings"}

=============================================================================
