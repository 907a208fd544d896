------------------------------ MODULE MCDataPath -------------------------------
EXTENDS DataPath, TLC

AllPaths == {"file", "legacy", "daemon"}
FilePath == {"file"}
LegacyPath == {"legacy"}
DaemonPath == {"daemon"}

================================================================================
