\* CampaignWins, which the tests of VisitsService ask for, is refuted when added here.
SPECIFICATION SettingsSpec
CONSTANTS
  Campaigns = {c1}
  Org = Org
  Unset = Unset
  ArchiveDays = {1, 2}
  PurgeDays = {0, 2}
  Environment <- ArchiveOnly
  Savers = {s1}
  Editors = {s1}
  Definitions = {d1, d2}
  OutcomeCodes = {knocked, refused}
  Codes = {van}
  BuiltIns = {van}
SYMMETRY Symmetry
INVARIANTS
  PurgeAfterArchive
  CodesUnique
  ListedIsResolved
PROPERTY ConfinedToCampaign
