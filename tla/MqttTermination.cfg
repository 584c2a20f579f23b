SPECIFICATION Spec
CONSTANTS
    Brokers <- HouseBrokers
    N = 2
    SubscribeTopic <- HouseTopics
    TopicDomain <- HouseDomains
    PublishTopics <- HousePublish
    PublishEnabled <- HousePublisher
    SubscribeEnabled <- HouseBrokers
INVARIANT RunsForEver
