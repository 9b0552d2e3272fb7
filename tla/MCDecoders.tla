------------------------------- MODULE MCDecoders -------------------------------
(* The artifacts that TLC has each component read. *)
EXTENDS Decoders

StreamInputs == INSTANCE MCStreams
VolumeInputs == INSTANCE MCVolumes
ImageInputs == INSTANCE MCImages
HiveInputs == INSTANCE MCHives
DatabaseInputs == INSTANCE MCDatabases
JournalsInputs == INSTANCE MCJournals
EseInputs == INSTANCE MCEse
MemoryInputs == INSTANCE MCMemory
DocumentsInputs == INSTANCE MCDocuments
PrefetchInputs == INSTANCE MCPrefetch
RulesInputs == INSTANCE MCRules

MCInflate(s) == StreamInputs!MCInflate(s)
MCFiles == StreamInputs!MCFiles
MCMfts == VolumeInputs!MCMfts
MCEwfFiles == ImageInputs!MCEwfFiles
MCVmdkFiles == ImageInputs!MCVmdkFiles
MCRequests == ImageInputs!MCRequests
MCEwfRequests == ImageInputs!MCEwfRequests
MCHives == HiveInputs!MCHiveFiles
MCDatabases == DatabaseInputs!MCDatabaseFiles
MCJournalFiles == JournalsInputs!MCJournalFiles
MCEseFiles == EseInputs!MCEseFiles
MCDumps == MemoryInputs!MCDumps
MCProfiles == MemoryInputs!MCProfiles
MCLimits == MemoryInputs!MCLimits
MCDocumentFiles == DocumentsInputs!MCDocumentFiles
MCPrefetchFiles == PrefetchInputs!MCPrefetchFiles
MCRuleSets == RulesInputs!MCRuleSets
MCTargets == RulesInputs!MCTargets
=============================================================================
