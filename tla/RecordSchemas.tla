---------------------------- MODULE RecordSchemas -----------------------------
(***************************************************************************)
(* The record types of libkieker (common/record) as data: the kinds of the *)
(* fields in the order in which kieker_common_record_..._serialize writes  *)
(* them.  A serializer makes one kieker_serialize_ call per field, starts  *)
(* at its offset, advances by what each call returns, and returns the      *)
(* position behind the last field.  WireFormat runs them.                  *)
(***************************************************************************)

\* The kinds of fields, one for each kieker_serialize_ function in use.
Boolean == "boolean"
Int32 == "int32"
Int64 == "int64"
Double == "double"
Text == "string"

\* common/record/controlflow
BranchingRecord == <<Int64, Int32, Int32>>
OperationExecutionRecord == <<Text, Text, Int64, Int64, Int64, Text, Int32, Int32>>

\* common/record/database
AfterDatabaseEvent == <<Int64, Text, Int64, Int32, Text, Text>>
BeforeDatabaseEvent == <<Int64, Text, Int64, Int32, Text, Text>>
DatabaseFailedEvent == <<Int64, Text, Int64, Int32, Text>>

\* common/record/flow/thread
AfterFailedThreadBasedEvent == <<Int64, Int64, Int32, Text, Text, Text>>
AfterThreadBasedEvent == <<Int64, Int64, Int32, Text, Text>>
BeforeThreadBasedEvent == <<Int64, Int64, Int32, Text, Text>>

\* common/record/flow/trace
ApplicationTraceMetadata == <<Int64, Int64, Text, Text, Int64, Int32, Text>>
BeforeReceivedRemoteEvent == <<Int64, Int64, Int32, Int64, Int32>>
BeforeSentRemoteEvent == <<Int64, Int64, Int32, Text>>
ConstructionEvent == <<Int64, Int64, Int32, Text, Int32>>
TraceMetadata == <<Int64, Int64, Text, Text, Int64, Int32>>

\* common/record/flow/trace/concurrency
JoinEvent == <<Int64, Int64, Int32, Int64>>
SplitEvent == <<Int64, Int64, Int32>>

\* common/record/flow/trace/concurrency/monitor
MonitorEntryEvent == <<Int64, Int64, Int32, Int32>>
MonitorExitEvent == <<Int64, Int64, Int32, Int32>>
MonitorNotifyAllEvent == <<Int64, Int64, Int32, Int32>>
MonitorNotifyEvent == <<Int64, Int64, Int32, Int32>>
MonitorRequestEvent == <<Int64, Int64, Int32, Int32>>
MonitorWaitEvent == <<Int64, Int64, Int32, Int32>>

\* common/record/flow/trace/operation
AfterOperationEvent == <<Int64, Int64, Int32, Text, Text>>
AfterOperationFailedEvent == <<Int64, Int64, Int32, Text, Text, Text>>
BeforeOperationEvent == <<Int64, Int64, Int32, Text, Text>>
CallOperationEvent == <<Int64, Int64, Int32, Text, Text, Text, Text>>

\* common/record/flow/trace/operation/constructor
AfterConstructorEvent == <<Int64, Int64, Int32, Text, Text>>
AfterConstructorFailedEvent == <<Int64, Int64, Int32, Text, Text, Text>>
BeforeConstructorEvent == <<Int64, Int64, Int32, Text, Text>>
CallConstructorEvent == <<Int64, Int64, Int32, Text, Text, Text, Text>>

\* common/record/flow/trace/operation/constructor/object
AfterConstructorFailedObjectEvent == <<Int64, Int64, Int32, Text, Text, Text, Int32>>
AfterConstructorObjectEvent == <<Int64, Int64, Int32, Text, Text, Int32>>
BeforeConstructorObjectEvent == <<Int64, Int64, Int32, Text, Text, Int32>>
BeforeConstructorObjectInterfaceEvent ==
  <<Int64, Int64, Int32, Text, Text, Int32, Text>>
CallConstructorObjectEvent ==
  <<Int64, Int64, Int32, Text, Text, Text, Text, Int32, Int32>>

\* common/record/flow/trace/operation/object
AfterOperationFailedObjectEvent == <<Int64, Int64, Int32, Text, Text, Text, Int32>>
AfterOperationObjectEvent == <<Int64, Int64, Int32, Text, Text, Int32>>
BeforeOperationObjectEvent == <<Int64, Int64, Int32, Text, Text, Int32>>
BeforeOperationObjectInterfaceEvent == <<Int64, Int64, Int32, Text, Text, Int32, Text>>
CallOperationObjectEvent ==
  <<Int64, Int64, Int32, Text, Text, Text, Text, Int32, Int32>>

\* common/record/jvm
ClassLoadingRecord == <<Int64, Text, Text, Int64, Int32, Int64>>
CompilationRecord == <<Int64, Text, Text, Text, Int64>>
GCRecord == <<Int64, Text, Text, Text, Int64, Int64>>
MemoryRecord ==
  <<Int64, Text, Text, Int64, Int64, Int64, Int64, Int64, Int64, Int64, Int64, Int32>>
ThreadsStatusRecord == <<Int64, Text, Text, Int64, Int64, Int64, Int64>>
UptimeRecord == <<Int64, Text, Text, Int64>>

\* common/record/misc
EmptyRecord == <<>>
HostApplicationMetaData == <<Text, Text, Text, Text>>
KiekerMetadataRecord == <<Text, Text, Text, Int32, Boolean, Int64, Text, Int64>>
ThreadMetaData == <<Text, Int64>>
TimestampRecord == <<Int64>>

\* common/record/remotecontrol
ActivationEvent == <<Text>>
ActivationParameterEvent == <<Text, Text, Text>>
AddParameterValueEvent == <<Text, Text, Text>>
DeactivationEvent == <<Text>>
RemoveParameterValueEvent == <<Text, Text, Text>>
UpdateParameterEvent == <<Text, Text, Text>>

\* common/record/system
CPUUtilizationRecord ==
  <<Int64, Text, Text, Double, Double, Double, Double, Double, Double, Double>>
DiskUsageRecord == <<Int64, Text, Text, Double, Double, Double, Double, Double, Double>>
LoadAverageRecord == <<Int64, Text, Double, Double, Double>>
MemSwapUsageRecord == <<Int64, Text, Int64, Int64, Int64, Int64, Int64, Int64>>
NetworkUtilizationRecord ==
  <<Int64, Text, Text, Int64, Double, Double, Double, Double, Double, Double,
    Double, Double, Double, Double, Double, Double, Double>>
ResourceUtilizationRecord == <<Int64, Text, Text, Double>>

\* All of them; types with the same fields are one element.
Schemas ==
   { BranchingRecord, OperationExecutionRecord, AfterDatabaseEvent,
   BeforeDatabaseEvent, DatabaseFailedEvent, AfterFailedThreadBasedEvent,
   AfterThreadBasedEvent, BeforeThreadBasedEvent, ApplicationTraceMetadata,
   BeforeReceivedRemoteEvent, BeforeSentRemoteEvent, ConstructionEvent, TraceMetadata,
   JoinEvent, SplitEvent, MonitorEntryEvent, MonitorExitEvent, MonitorNotifyAllEvent,
   MonitorNotifyEvent, MonitorRequestEvent, MonitorWaitEvent, AfterOperationEvent,
   AfterOperationFailedEvent, BeforeOperationEvent, CallOperationEvent,
   AfterConstructorEvent, AfterConstructorFailedEvent, BeforeConstructorEvent,
   CallConstructorEvent, AfterConstructorFailedObjectEvent,
   AfterConstructorObjectEvent, BeforeConstructorObjectEvent,
   BeforeConstructorObjectInterfaceEvent, CallConstructorObjectEvent,
   AfterOperationFailedObjectEvent, AfterOperationObjectEvent,
   BeforeOperationObjectEvent, BeforeOperationObjectInterfaceEvent,
   CallOperationObjectEvent, ClassLoadingRecord, CompilationRecord, GCRecord,
   MemoryRecord, ThreadsStatusRecord, UptimeRecord, EmptyRecord,
   HostApplicationMetaData, KiekerMetadataRecord, ThreadMetaData, TimestampRecord,
   ActivationEvent, ActivationParameterEvent, AddParameterValueEvent,
   DeactivationEvent, RemoveParameterValueEvent, UpdateParameterEvent,
   CPUUtilizationRecord, DiskUsageRecord, LoadAverageRecord, MemSwapUsageRecord,
   NetworkUtilizationRecord, ResourceUtilizationRecord }
===============================================================================
