SPECIFICATION Spec
CONSTANTS
    Brokers <- HouseBrokers
    N = 2
    SubscribeTopic <- HouseTopics
    TopicDomain <- HouseDomains
    PublishTopics <- HousePublish
    PublishEnabled <- HousePublisher
    SubscribeEnabled <- HouseBrokers
INVARIANTS TypeOK NobodyGivesUp SessionComplete StatusTruthful
PROPERTIES Recovers
