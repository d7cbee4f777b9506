SPECIFICATION FairSpec
CONSTANTS
  Topics = {1, 2}
  Users = {1, 2}
  Scenes <- Scenes1
INVARIANT TypeOK TopicsBeforeUsers CreatedUserHasAccess
PROPERTY FinalizedTopicIsGone TopicSettles UserSettles DeletionsComplete
CHECK_DEADLOCK FALSE
