--------------------------- MODULE MCCommandQueue ---------------------------
\* CommandQueue on small instances.
EXTENDS CommandQueue

\* The columns of agent_commands as migrations/migration.sql creates it.
MigrationColumns ==
    {"id", "hostname", "command_type", "parameters", "alert_id", "priority", "status",
     "created_at", "sent_at", "completed_at", "result", "error"}

\* The table the statements of agent_storage.go are written for.
StatementColumns == MigrationColumns \cup {"updated_at", "executed_at"}
=============================================================================
